---- MODULE Spec2Model ----
(***************************************************************************)
(* World-network builder and deep-link resolver of                         *)
(* src/ssl_fixed_extractor_v3.py, lines 4118-4914 (SOPParser,              *)
(* WorldNetworkBuilder, DeepLinkResolver), and the graph query layer of    *)
(* the V2 WorldNetwork of the same file, lines 733-855.                    *)
(*                                                                         *)
(* A document is a sequence of lines.  Every line carries what the         *)
(* parser's regular expressions see in it: whether it is a category        *)
(* heading (and which entry of PATTERNS matches it), a numbered step, a    *)
(* Yes/No/Unsure marker, a nested marker, a "Label:" line or plain text,   *)
(* its indentation, and the reference codes PROC_PAT finds in it.          *)
(***************************************************************************)
EXTENDS Integers, Sequences, FiniteSets, TLC

VARIABLES
    mainDoc,    \* the raw text handed to WorldNetworkProcessor.process
    pdir,       \* DeepLinkResolver.pdir is set (a procedures folder exists)
    folder,     \* what the procedures folder holds for every reference code
    hashOrd,    \* iteration order of a set of strings in this process
    net,        \* the WorldNetwork being built and resolved
    phase,      \* "new", "built", "resolving", "returned"
    max_d,      \* max_d argument of the running resolve_all
    pending,    \* resolve_all: its list  pending
    idx,        \* resolve_all: position of  for pc in pending
    stack,      \* the _resolve frames, innermost last
    v2data,     \* V2: the parsed_data handed to WorldNetworkBuilderV2.build
    v2builder,  \* V2: node_counter and edge_counter of the builder
    v2net,      \* V2: the WorldNetwork built last
    query,      \* V2: the running or finished get_claim_type_graph
    walk,       \* V2: the running or finished get_decision_path
    stats,      \* V2: max_depths of the last _compute_statistics
    v2parser,   \* V2: entities_found of SOPParserV2 and the texts it is given
    crawl       \* v1: the state of PremeraPROPCLExtractor and of extract_all

v3vars == <<mainDoc, pdir, folder, hashOrd, net, phase, max_d, pending, idx, stack>>
v2vars == <<v2data, v2builder, v2net, query, walk, stats, v2parser, crawl>>
vars == <<v3vars, v2vars>>

----------------------------------------------------------------------------
(* Bounds *)

NumCodes == 2
MaxDepth == 2

(* Reference codes: PROC_PAT matches PR.OP.CL. and four digits. *)
CodeNames == <<"PR.OP.CL.0001", "PR.OP.CL.0002", "PR.OP.CL.0003", "PR.OP.CL.0004">>
Codes == {CodeNames[i] : i \in 1..NumCodes}
cA == CodeNames[1]
cB == CodeNames[2]

----------------------------------------------------------------------------
(* Sequence helpers *)

Range(s) == {s[i] : i \in DOMAIN s}

RECURSIVE Dedup(_)
Dedup(s) ==
    IF s = <<>> THEN <<>>
    ELSE LET r == Dedup(SubSeq(s, 1, Len(s) - 1))
         IN  IF s[Len(s)] \in Range(r) THEN r ELSE Append(r, s[Len(s)])

RECURSIVE Flatten(_)
Flatten(ss) == IF ss = <<>> THEN <<>> ELSE Head(ss) \o Flatten(Tail(ss))

Perms(S) == {p \in [1..Cardinality(S) -> S] : Range(p) = S}

(* only the element of the set that comes first in its iteration order *)
list_set_first(xs, ord) ==
    LET all == SelectSeq(ord, LAMBDA c : c \in Range(xs))
    IN  IF all = <<>> THEN <<>> ELSE <<Head(all)>>

(* list(set(xs)): the distinct elements, in the set's iteration order. *)
list_set(xs, ord) == SelectSeq(ord, LAMBDA c : c \in Range(xs))

----------------------------------------------------------------------------
(* Lines of raw text *)

Line(k, txt, name, pat, num, dec, ind, refs, excl) ==
    [k |-> k, txt |-> txt, name |-> name, pat |-> pat, num |-> num,
     dec |-> dec, ind |-> ind, refs |-> refs, excl |-> excl]

(* "### **Name**" and the like; pat is the first entry of PATTERNS matching *)
(* of the line; name is group(1), cut at every '/' into its parts          *)
HeadLine(name, pat) == Line("head", "", name, pat, 0, FALSE, 0, <<>>, FALSE)
(* "3. content": STEP_PAT; dec is DEC_PAT.search(content) or '?' in content *)
StepLine(num, txt, dec, refs) == Line("step", txt, <<>>, 0, num, dec, 0, refs, FALSE)
(* k is "yes", "no", "unsure": YES_PAT, NO_PAT, UNSURE_PAT *)
(* k is "nyes", "nno": only the nested patterns of _parse_branches match *)
MarkLine(k, txt, ind, refs) == Line(k, txt, <<>>, 0, 0, FALSE, ind, refs, FALSE)
(* "Label: rest": SUB_COND_PAT; excl: the label is in the skip list *)
LabelLine(label, txt, ind, refs, excl) ==
    Line("label", txt, <<label>>, 0, 0, FALSE, ind, refs, excl)
TextLine(txt, ind, refs) == Line("text", txt, <<>>, 0, 0, FALSE, ind, refs, FALSE)

(* str.lower() on the words used in category names *)
LowerWord(w) ==
    CASE w = "Amazon Claims" -> "amazon claims"
      [] w = "AMAZON CLAIMS" -> "amazon claims"
      [] w = "All Others"    -> "all others"
      [] OTHER               -> w

Lower(n) == [i \in DOMAIN n |-> LowerWord(n[i])]

(* len() of a name: its parts and the '/' between them *)
RECURSIVE StrLen(_)
StrLen(n) ==
    IF n = <<>> THEN 0
    ELSE Len(Head(n)) + (IF Len(n) > 1 THEN 1 ELSE 0) + StrLen(Tail(n))

NumPatterns == 11

----------------------------------------------------------------------------
(* SOPParser *)

LineCodes(ls) == Flatten([i \in DOMAIN ls |-> ls[i].refs])

(* Positions i of t, ascending, with P(t[i]) *)
Positions(t, P(_)) == SelectSeq([i \in DOMAIN t |-> i], LAMBDA i : P(t[i]))

RECURSIVE HeadCandidates(_, _)
HeadCandidates(t, p) ==
    IF p > NumPatterns THEN <<>>
    ELSE Positions(t, LAMBDA l : l.k = "head" /\ l.pat = p) \o HeadCandidates(t, p + 1)

RECURSIVE SectionMatches(_, _, _)
SectionMatches(t, cands, seen) ==
    IF cands = <<>> THEN {}
    ELSE LET n == Lower(t[Head(cands)].name)
         IN  IF n \notin seen /\ StrLen(n) > 3
             THEN {Head(cands)} \cup SectionMatches(t, Tail(cands), seen \cup {n})
             ELSE SectionMatches(t, Tail(cands), seen)

(* The end of the span that starts at a position of the set starts *)
SpanEnd(t, starts, pos) ==
    LET later == {q \in starts : q > pos}
    IN  IF later = {} THEN Len(t)
        ELSE (CHOOSE q \in later : \A r \in later : q <= r) - 1

NoBranch == [type |-> "none", content |-> <<>>, codes |-> <<>>, sub_conditions |-> <<>>,
             procedure_refs |-> <<>>, indent |-> 0]
NoSub == [type |-> "none", label |-> "", content |-> <<>>, codes |-> <<>>,
          procedure_refs |-> <<>>]

CloseSub(b, s) ==
    IF s.type = "none" THEN b
    ELSE [b EXCEPT !.sub_conditions = Append(@, s)]

CloseBranch(bs, b, s) ==
    IF b.type = "none" THEN bs ELSE Append(bs, CloseSub(b, s))

(* One iteration of the for loop of _parse_branches over state            *)
(* st = [branches, cur, sub, branch_indent].                              *)
parse_branches_line(st, l, ord) ==
    IF l.k \in {"yes", "no", "unsure"}
    THEN [branches |-> CloseBranch(st.branches, st.cur, st.sub),
          cur |-> [type |-> l.k, content |-> <<l.txt>>, codes |-> l.refs,
                   sub_conditions |-> <<>>, procedure_refs |-> <<>>, indent |-> l.ind],
          sub |-> NoSub,
          branch_indent |-> l.ind]
    ELSE IF st.cur.type = "none" THEN st
    ELSE IF l.k \in {"nyes", "nno"} /\ l.ind > st.branch_indent
    THEN [st EXCEPT !.cur = CloseSub(st.cur, st.sub),
                    !.sub = [type |-> IF l.k = "nyes" THEN "yes" ELSE "no",
                             label |-> IF l.k = "nyes" THEN "Yes" ELSE "No",
                             content |-> <<l.txt>>, codes |-> l.refs,
                             procedure_refs |-> list_set(l.refs, ord)]]
    ELSE IF l.k = "label" /\ l.ind > st.branch_indent
    THEN IF ~l.excl
         THEN [st EXCEPT !.cur = CloseSub(st.cur, st.sub),
                         !.sub = [type |-> "sub", label |-> l.name[1],
                                  content |-> <<l.txt>>, codes |-> l.refs,
                                  procedure_refs |-> list_set(l.refs, ord)]]
         ELSE IF st.sub.type # "none"
              THEN [st EXCEPT !.sub.content = Append(@, l.txt),
                              !.sub.codes = @ \o l.refs]
              ELSE st
    ELSE IF st.sub.type # "none"
    THEN [st EXCEPT !.sub.content = Append(@, l.txt),
                    !.sub.codes = @ \o l.refs,
                    !.sub.procedure_refs = list_set(st.sub.codes \o l.refs, ord)]
    ELSE [st EXCEPT !.cur.content = Append(@, l.txt),
                    !.cur.codes = @ \o l.refs]

RECURSIVE parse_branches_loop(_, _, _)
parse_branches_loop(st, ls, ord) ==
    IF ls = <<>> THEN st
    ELSE parse_branches_loop(parse_branches_line(st, Head(ls), ord), Tail(ls), ord)

_parse_branches(step_text, ord) ==
    LET st == parse_branches_loop(
                  [branches |-> <<>>, cur |-> NoBranch, sub |-> NoSub, branch_indent |-> 0],
                  step_text, ord)
        bs == CloseBranch(st.branches, st.cur, st.sub)
    IN  [i \in DOMAIN bs |->
            [bs[i] EXCEPT !.procedure_refs = list_set(bs[i].codes, ord)]]

_steps(t, ord) ==
    LET ms == Positions(t, LAMBDA l : l.k = "step")
    IN  [i \in DOMAIN ms |->
            LET txt == SubSeq(t, ms[i], SpanEnd(t, Range(ms), ms[i]))
                m   == t[ms[i]]
            IN  [number |-> m.num, content |-> <<m.txt>>, is_decision |-> m.dec,
                 branches |-> IF m.dec THEN _parse_branches(txt, ord) ELSE <<>>,
                 procedure_refs |-> list_set(LineCodes(txt), ord)]]

_sections(t, ord) ==
    LET starts  == SectionMatches(t, HeadCandidates(t, 1), {})
        matches == Positions(t, LAMBDA l : TRUE)
        sorted  == SelectSeq(matches, LAMBDA i : i \in starts)
    IN  [i \in DOMAIN sorted |->
            LET txt == SubSeq(t, sorted[i], SpanEnd(t, starts, sorted[i]))
            IN  [name |-> t[sorted[i]].name, steps |-> _steps(txt, ord),
                 procedure_refs |-> list_set(LineCodes(txt), ord)]]

_all_refs(t) == Dedup(LineCodes(t))

parse(doc, ord) ==
    [title |-> doc.title, sections |-> _sections(doc.lines, ord),
     procedure_references |-> _all_refs(doc.lines)]

----------------------------------------------------------------------------
(* WorldNetwork *)

None == ""
NoId == 0

(* WorldNetwork.__init__ *)
WorldNetwork(doc_name) ==
    [document_name |-> doc_name, nodes |-> <<>>, edges |-> <<>>,
     procedure_refs |-> <<>>, claim_type_roots |-> <<>>, linked_procedures |-> <<>>,
     nc |-> 0, ec |-> 0]

(* self.d[k] = v on a dict held as a function *)
Put(d, k, v) == (k :> v) @@ d

(* Node k stands for the id "node_%04d" % k, edge k for "edge_%04d" % k. *)
create_node(g, nt, content, section, step_number, procedure_code) ==
    [g EXCEPT !.nc = g.nc + 1,
              !.nodes = Put(g.nodes, g.nc + 1,
                            [node_type |-> nt, content |-> content, section |-> section,
                             step_number |-> step_number,
                             procedure_code |-> procedure_code])]

(* made_at: the value of the node counter when the edge is created *)
create_edge(g, src, tgt, et, cond) ==
    [g EXCEPT !.ec = g.ec + 1,
              !.edges = Put(g.edges, g.ec + 1,
                            [source_id |-> src, target_id |-> tgt, edge_type |-> et,
                             condition |-> cond, made_at |-> g.nc])]

RefCodes(g) == {g.procedure_refs[i].procedure_code : i \in DOMAIN g.procedure_refs}
RefIndex(g, c) == CHOOSE i \in DOMAIN g.procedure_refs : g.procedure_refs[i].procedure_code = c
StatusOf(g, c) == g.procedure_refs[RefIndex(g, c)].status

(* ProcedureReference(id="ref_"+c, procedure_code=c, status="pending") *)
ProcedureReference(c) ==
    [procedure_code |-> c, status |-> "pending", error_message |-> None]

(* the same without the test: an existing record is replaced *)
register_ref_overwrite(g, c) ==
    IF c \in RefCodes(g)
    THEN [g EXCEPT !.procedure_refs[RefIndex(g, c)] = ProcedureReference(c)]
    ELSE [g EXCEPT !.procedure_refs = Append(@, ProcedureReference(c))]

(* if c not in procedure_refs: procedure_refs[c] = ProcedureReference(...) *)
register_ref(g, c) ==
    IF c \in RefCodes(g) THEN g
    ELSE [g EXCEPT !.procedure_refs = Append(@, ProcedureReference(c))]

(* a status other than resolved written into a network whose merges are *)
(* forgotten                                                             *)
set_status_unlinked(g, c, s, msg) ==
    [g EXCEPT !.procedure_refs[RefIndex(g, c)].status = s,
              !.procedure_refs[RefIndex(g, c)].error_message = msg,
              !.linked_procedures = IF s = "resolved" THEN @ ELSE <<>>]

set_status(g, c, s, msg) ==
    [g EXCEPT !.procedure_refs[RefIndex(g, c)].status = s,
              !.procedure_refs[RefIndex(g, c)].error_message = msg]

----------------------------------------------------------------------------
(* WorldNetworkBuilder *)

(* the edge made before the node it points at *)
_add_ref_edge_first(g, pc, src) ==
    LET g1 == register_ref(g, pc)
        g2 == create_edge(g1, src, g1.nc + 1, "reference", None)
    IN  create_node(g2, "reference", <<"->", pc>>, <<>>, 0, pc)

_add_ref(g, pc, src) ==
    LET g1 == register_ref(g, pc)
        g2 == create_node(g1, "reference", <<"->", pc>>, <<>>, 0, pc)
    IN  create_edge(g2, src, g2.nc, "reference", None)

RECURSIVE add_refs(_, _, _)
add_refs(g, pcs, src) ==
    IF pcs = <<>> THEN g ELSE add_refs(_add_ref(g, Head(pcs), src), Tail(pcs), src)

_proc_sub(g, sub, pid, sec) ==
    LET nt   == CASE sub.type = "yes" -> "branch_yes"
                  [] sub.type = "no"  -> "branch_no"
                  [] OTHER            -> "sub_condition"
        et   == CASE sub.type = "yes" -> "sub_yes"
                  [] sub.type = "no"  -> "sub_no"
                  [] OTHER            -> "sub_condition"
        cond == CASE sub.type = "yes" -> "YES"
                  [] sub.type = "no"  -> "NO"
                  [] OTHER            -> sub.label
        g1   == create_node(g, nt, <<"[", sub.label, "]">> \o sub.content, sec, 0, None)
        g2   == create_edge(g1, pid, g1.nc, et, cond)
    IN  add_refs(g2, sub.procedure_refs, g1.nc)

RECURSIVE proc_subs(_, _, _, _)
proc_subs(g, subs, pid, sec) ==
    IF subs = <<>> THEN g
    ELSE proc_subs(_proc_sub(g, Head(subs), pid, sec), Tail(subs), pid, sec)

_proc_branch(g, b, pid, sec) ==
    LET nt   == CASE b.type = "yes" -> "branch_yes"
                  [] b.type = "no"  -> "branch_no"
                  [] OTHER          -> "branch_unsure"
        et   == CASE b.type = "yes" -> "condition_yes"
                  [] b.type = "no"  -> "condition_no"
                  [] OTHER          -> "condition_unsure"
        cond == CASE b.type = "yes" -> "YES"
                  [] b.type = "no"  -> "NO"
                  [] OTHER          -> "UNSURE"
        g1   == create_node(g, nt, b.content, sec, 0, None)
        g2   == create_edge(g1, pid, g1.nc, et, cond)
        g3   == add_refs(g2, b.procedure_refs, g1.nc)
    IN  proc_subs(g3, b.sub_conditions, g1.nc, sec)

RECURSIVE proc_branches(_, _, _, _)
proc_branches(g, bs, pid, sec) ==
    IF bs = <<>> THEN g
    ELSE proc_branches(_proc_branch(g, Head(bs), pid, sec), Tail(bs), pid, sec)

(* the step also hung below the claim type node of its section *)
_proc_step_contained(g, step, sid, prev, sec) ==
    IF step.is_decision
    THEN LET g1 == create_node(g, "decision", step.content, sec, step.number, None)
             g2 == create_edge(g1, prev, g1.nc, "sequence", None)
             g3 == create_edge(g2, sid, g1.nc, "contains", None)
         IN  [g |-> proc_branches(g3, step.branches, g1.nc, sec), prev |-> g1.nc]
    ELSE LET g1 == create_node(g, "step", step.content, sec, step.number, None)
             g2 == create_edge(g1, prev, g1.nc, "sequence", None)
             g3 == create_edge(g2, sid, g1.nc, "contains", None)
         IN  [g |-> add_refs(g3, step.procedure_refs, g1.nc), prev |-> g1.nc]

(* Returns the network and the id that _proc_step returns. *)
_proc_step(g, step, sid, prev, sec) ==
    IF step.is_decision
    THEN LET g1 == create_node(g, "decision", step.content, sec, step.number, None)
             g2 == create_edge(g1, prev, g1.nc, "sequence", None)
         IN  [g |-> proc_branches(g2, step.branches, g1.nc, sec), prev |-> g1.nc]
    ELSE LET g1 == create_node(g, "step", step.content, sec, step.number, None)
             g2 == create_edge(g1, prev, g1.nc, "sequence", None)
         IN  [g |-> add_refs(g2, step.procedure_refs, g1.nc), prev |-> g1.nc]

RECURSIVE proc_steps(_, _, _, _, _)
proc_steps(g, steps, sid, prev, sec) ==
    IF steps = <<>> THEN g
    ELSE LET r == _proc_step(g, Head(steps), sid, prev, sec)
         IN  proc_steps(r.g, Tail(steps), sid, r.prev, sec)

_proc_section(g, sec, pid) ==
    LET g1 == create_node(g, "claim_type", sec.name, sec.name, 0, None)
        g2 == create_edge(g1, pid, g1.nc, "contains", None)
        g3 == [g2 EXCEPT !.claim_type_roots = Put(@, sec.name, g1.nc)]
    IN  proc_steps(g3, sec.steps, g1.nc, g1.nc, sec.name)

RECURSIVE proc_sections(_, _, _)
proc_sections(g, secs, pid) ==
    IF secs = <<>> THEN g
    ELSE proc_sections(_proc_section(g, Head(secs), pid), Tail(secs), pid)

RECURSIVE register_refs(_, _)
register_refs(g, cs) ==
    IF cs = <<>> THEN g ELSE register_refs(register_ref(g, Head(cs)), Tail(cs))

(* build without its loop over parsed['procedure_references'] *)
build_sections_only(parsed, doc_name) ==
    LET g0 == WorldNetwork(doc_name)
        g1 == create_node(g0, "root", <<doc_name>>, <<>>, 0, None)
    IN  proc_sections(g1, parsed.sections, g1.nc)

(* WorldNetworkBuilder.build(parsed, doc_id, doc_name) *)
build(parsed, doc_name) ==
    LET g0 == WorldNetwork(doc_name)
        g1 == create_node(g0, "root", <<doc_name>>, <<>>, 0, None)
        g2 == proc_sections(g1, parsed.sections, g1.nc)
    IN  register_refs(g2, parsed.procedure_references)

----------------------------------------------------------------------------
(* DeepLinkResolver *)

(* What the procedures folder holds for one code: no matching file, a file *)
(* that _extract cannot read (it raises), or a file with a document.       *)
NoFile == [file |-> "none", doc |-> [title |-> "", lines |-> <<>>]]
Unreadable == [file |-> "unreadable", doc |-> [title |-> "", lines |-> <<>>]]
FileOf(doc) == [file |-> "doc", doc |-> doc]

(* The path found for pc, or None; the path is written as the code itself. *)
_find(pc) == IF ~pdir \/ folder[pc].file = "none" THEN None ELSE pc

ExtractRaises(fp) == folder[fp].file = "unreadable"
_extract(fp) == folder[fp].doc

(* the deep-link edges drawn from lr back to the pointers *)
RECURSIVE merge_links_reversed(_, _, _, _, _)
merge_links_reversed(g, n, last, lr, pc) ==
    IF n > last THEN g
    ELSE IF g.nodes[n].node_type = "reference" /\ g.nodes[n].procedure_code = pc
         THEN merge_links_reversed(create_edge(g, lr, n, "deep_link", None),
                                   n + 1, last, lr, pc)
         ELSE merge_links_reversed(g, n + 1, last, lr, pc)

(* for n in list(main.nodes.values()): the deep-link edges to lr *)
RECURSIVE merge_links(_, _, _, _, _)
merge_links(g, n, last, lr, pc) ==
    IF n > last THEN g
    ELSE IF g.nodes[n].node_type = "reference" /\ g.nodes[n].procedure_code = pc
         THEN merge_links(create_edge(g, n, lr, "deep_link", None), n + 1, last, lr, pc)
         ELSE merge_links(g, n + 1, last, lr, pc)

(* for oid, n in sub.nodes.items(): returns the network and idmap *)
RECURSIVE merge_nodes(_, _, _, _, _, _)
merge_nodes(g, idmap, sub, oid, lr, pc) ==
    IF oid > sub.nc THEN [g |-> g, idmap |-> idmap]
    ELSE LET n == sub.nodes[oid]
         IN  IF n.node_type = "root"
             THEN merge_nodes(g, Put(idmap, oid, lr), sub, oid + 1, lr, pc)
             ELSE LET g1 == create_node(g, n.node_type, n.content, <<pc>> \o n.section,
                                        n.step_number, pc)
                  IN  merge_nodes(g1, Put(idmap, oid, g1.nc), sub, oid + 1, lr, pc)

(* idmap.get(k) *)
IdGet(idmap, k) == IF k \in DOMAIN idmap THEN idmap[k] ELSE NoId

(* the edges copied with the ids they have in sub *)
RECURSIVE merge_edges_unmapped(_, _, _, _)
merge_edges_unmapped(g, idmap, sub, eid) ==
    IF eid > sub.ec THEN g
    ELSE LET e == sub.edges[eid]
         IN  merge_edges_unmapped(create_edge(g, e.source_id, e.target_id,
                                              e.edge_type, e.condition),
                                  idmap, sub, eid + 1)

(* for e in sub.edges.values() *)
RECURSIVE merge_edges(_, _, _, _)
merge_edges(g, idmap, sub, eid) ==
    IF eid > sub.ec THEN g
    ELSE LET e == sub.edges[eid]
             s == IdGet(idmap, e.source_id)
             t == IdGet(idmap, e.target_id)
         IN  IF s # NoId /\ t # NoId
             THEN merge_edges(create_edge(g, s, t, e.edge_type, e.condition),
                              idmap, sub, eid + 1)
             ELSE merge_edges(g, idmap, sub, eid + 1)

(* for cn, cr in sub.claim_type_roots.items() *)
merge_roots(g, idmap, sub, pc) ==
    LET absorbed == {cn \in DOMAIN sub.claim_type_roots :
                        IdGet(idmap, sub.claim_type_roots[cn]) # NoId}
        keys     == DOMAIN g.claim_type_roots \cup {<<pc>> \o cn : cn \in absorbed}
    IN  [g EXCEPT !.claim_type_roots =
            [k \in keys |->
                IF \E cn \in absorbed : k = <<pc>> \o cn
                THEN idmap[sub.claim_type_roots[
                         CHOOSE cn \in absorbed : k = <<pc>> \o cn]]
                ELSE g.claim_type_roots[k]]]

(* the merge without the entry in linked_procedures *)
_merge_unrecorded(main, sub, pc) ==
    LET g1 == create_node(main, "linked_procedure", <<pc, sub.document_name>>,
                          <<>>, 0, pc)
        lr == g1.nc
        g3 == merge_links(g1, 1, g1.nc, lr, pc)
        r  == merge_nodes(g3, <<>>, sub, 1, lr, pc)
        g4 == merge_edges(r.g, r.idmap, sub, 1)
    IN  merge_roots(g4, r.idmap, sub, pc)

_merge(main, sub, pc) ==
    LET g1 == create_node(main, "linked_procedure", <<pc, sub.document_name>>,
                          <<>>, 0, pc)
        lr == g1.nc
        g2 == [g1 EXCEPT !.linked_procedures = Put(@, pc, lr)]
        g3 == merge_links(g2, 1, g2.nc, lr, pc)
        r  == merge_nodes(g3, <<>>, sub, 1, lr, pc)
        g4 == merge_edges(r.g, r.idmap, sub, 1)
    IN  merge_roots(g4, r.idmap, sub, pc)

(* pending = [c for c, r in net.procedure_refs.items() if r.status == "pending"] *)
PendingCodes(g) ==
    LET ps == SelectSeq(g.procedure_refs, LAMBDA r : r.status = "pending")
    IN  [i \in DOMAIN ps |-> ps[i].procedure_code]

(* only the first key *)
RefKeys_first(g) ==
    IF g.procedure_refs = <<>> THEN <<>> ELSE <<g.procedure_refs[1].procedure_code>>

(* list(sub.procedure_refs.keys()) *)
RefKeys(g) == [i \in DOMAIN g.procedure_refs |-> g.procedure_refs[i].procedure_code]

Frame(pc, d) == [pc |-> pc, d |-> d, stage |-> "enter", todo |-> <<>>]
Top == stack[Len(stack)]
Pop == SubSeq(stack, 1, Len(stack) - 1)

----------------------------------------------------------------------------
(* V2: WorldNetwork (line 733) and WorldNetworkBuilderV2 (line 1511)       *)

(* The ids of S in ascending order: a dict filled in the order of the ids *)
RECURSIVE Ascending(_)
Ascending(S) ==
    IF S = {} THEN <<>>
    ELSE LET m == CHOOSE x \in S : \A y \in S : x <= y
         IN  <<m>> \o Ascending(S \ {m})

(* WorldNetwork.__init__ *)
WorldNetworkV2(doc_name) ==
    [document_name |-> doc_name, nodes |-> <<>>, edges |-> <<>>, root_id |-> NoId,
     claim_type_roots |-> <<>>]

(* WorldNetworkBuilderV2.__init__ *)
WorldNetworkBuilderV2 == [node_counter |-> 0, edge_counter |-> 0, builds |-> 0]

(* The texts of the documents below that hold the word "continue", in any *)
(* case: 'continue' in content.lower()                                     *)
ContinueTexts == {"Continue to next step", "Pay and CONTINUE", "continue review"}

ContainsContinue(txt) == txt \in ContinueTexts

(* re.search(r'continue\s+to\s+(the\s+)?next\s+step', content, re.IGNORECASE) *)
ContinueToNextStep(txt) == txt \in {"Continue to next step"}

Node(nt, content, step_number, parent_id, section, continue_to_step) ==
    [node_type |-> nt, content |-> content, step_number |-> step_number,
     parent_id |-> parent_id, section |-> section,
     continue_to_step |-> continue_to_step]

Edge(src, tgt, et, cond) ==
    [source_id |-> src, target_id |-> tgt, edge_type |-> et, condition |-> cond]

(* network.add_node(Node(id=self._gen_node_id(), ...)) *)
add_node(b, node) ==
    LET id == b.c.node_counter + 1
        n1 == [b.n EXCEPT !.nodes = Put(@, id, node)]
        n2 == IF node.node_type = "root" THEN [n1 EXCEPT !.root_id = id]
              ELSE IF node.node_type = "claim_type"
                   THEN [n1 EXCEPT !.claim_type_roots = Put(@, node.content, id)]
                   ELSE n1
    IN  [b EXCEPT !.c = [b.c EXCEPT !.node_counter = id], !.n = n2]

(* network.add_edge(Edge(id=self._gen_edge_id(), ...)) *)
add_edge(b, edge) ==
    LET id == b.c.edge_counter + 1
    IN  [b EXCEPT !.c = [b.c EXCEPT !.edge_counter = id],
                  !.n = [b.n EXCEPT !.edges = Put(@, id, edge)]]

(* the edge also taken from the node at its target *)
get_outgoing_edges_both_ways(g, nid) ==
    SelectSeq(Ascending(DOMAIN g.edges),
              LAMBDA e : g.edges[e].source_id = nid \/ g.edges[e].target_id = nid)

get_outgoing_edges(g, nid) ==
    SelectSeq(Ascending(DOMAIN g.edges), LAMBDA e : g.edges[e].source_id = nid)

(* A call of build works on b = [c, n, terms, step]: the builder's      *)
(* counters, the network, the terminal_ids collected so far and the id of  *)
(* the step node built last.                                               *)
last_id(b) == b.c.node_counter

add_terminal(b, id) == [b EXCEPT !.terms = Append(@, id)]

(* one nested decision: its node, the edge from the branch, a terminal *)
build_nested_one(b, nd, branch_id, section_name) ==
    add_terminal(
        add_edge(add_node(b, Node(IF nd.type = "yes" THEN "branch_yes" ELSE "branch_no",
                                  nd.action, 0, branch_id, section_name, FALSE)),
                 Edge(branch_id, last_id(b) + 1,
                      IF nd.type = "yes" THEN "nested_yes" ELSE "nested_no",
                      IF nd.type = "yes" THEN "YES" ELSE "NO")),
        last_id(b) + 1)

(* for nested in branch['nested_decisions'] *)
RECURSIVE build_nested(_, _, _, _)
build_nested(b, nested, branch_id, section_name) ==
    IF nested = <<>> THEN b
    ELSE build_nested(build_nested_one(b, Head(nested), branch_id, section_name),
                      Tail(nested), branch_id, section_name)

(* one sub-scenario: its node, the edge from the branch, a terminal *)
build_scenario(b, sc, branch_id, section_name) ==
    add_terminal(
        add_edge(add_node(b, Node("action", sc.action, 0, branch_id, section_name, FALSE)),
                 Edge(branch_id, last_id(b) + 1, "sequence", sc.type)),
        last_id(b) + 1)

(* for scenario in branch['sub_scenarios'] *)
RECURSIVE build_scenarios(_, _, _, _)
build_scenarios(b, scenarios, branch_id, section_name) ==
    IF scenarios = <<>> THEN b
    ELSE build_scenarios(build_scenario(b, Head(scenarios), branch_id, section_name),
                         Tail(scenarios), branch_id, section_name)

(* for ref_id in branch.get('procedure_refs', []) *)
RECURSIVE build_refs(_, _, _)
build_refs(b, refs, branch_id) ==
    IF refs = <<>> THEN b
    ELSE build_refs(add_edge(add_node(b, Node("reference", Head(refs), 0, branch_id,
                                              "", FALSE)),
                             Edge(branch_id, last_id(b) + 1, "reference", None)),
                    Tail(refs), branch_id)

(* _build_branch after its node is made: b holds the branch node as the   *)
(* last node.                                                              *)
build_branch_rest(b, branch, parent_id, section_name) ==
    LET id == last_id(b)
        et == CASE branch.type = "yes" -> "condition_yes"
                [] branch.type = "no"  -> "condition_no"
                [] OTHER               -> "condition_unsure"
        cond == CASE branch.type = "yes" -> "YES"
                  [] branch.type = "no"  -> "NO"
                  [] OTHER               -> "UNSURE"
        done == build_refs(
                    build_scenarios(
                        build_nested(add_edge(b, Edge(parent_id, id, et, cond)),
                                     branch.nested_decisions, id, section_name),
                        branch.sub_scenarios, id, section_name),
                    branch.procedure_refs, id)
    IN  IF branch.nested_decisions = <<>> /\ branch.sub_scenarios = <<>>
        THEN add_terminal(done, id) ELSE done

_build_branch(b, branch, parent_id, section_name) ==
    build_branch_rest(
        add_node(b, Node(CASE branch.type = "yes" -> "branch_yes"
                           [] branch.type = "no"  -> "branch_no"
                           [] OTHER               -> "branch_unsure",
                         branch.action, 0, parent_id, section_name,
                         branch.continue_to_step)),
        branch, parent_id, section_name)

(* for branch in step_data['branches'] *)
RECURSIVE build_branches(_, _, _, _)
build_branches(b, branches, parent_id, section_name) ==
    IF branches = <<>> THEN b
    ELSE build_branches(_build_branch(b, Head(branches), parent_id, section_name),
                        Tail(branches), parent_id, section_name)

(* _build_step after its node is made *)
build_step_rest(b, step, section_name) ==
    IF step.is_decision /\ step.branches # <<>>
    THEN build_branches([b EXCEPT !.step = last_id(b), !.terms = <<>>],
                        step.branches, last_id(b), section_name)
    ELSE [b EXCEPT !.step = last_id(b), !.terms = <<last_id(b)>>]

(* Leaves the step's node id in b.step and its terminal ids in b.terms. *)
_build_step(b, step, section_id, section_name) ==
    build_step_rest(
        add_node(b, Node(IF step.is_decision THEN "decision" ELSE "step",
                         step.question, step.step_number, section_id, section_name,
                         FALSE)),
        step, section_name)

(* for term_id in previous_step_terminals *)
RECURSIVE connect_terminals(_, _, _)
connect_terminals(b, terms, step_id) ==
    IF terms = <<>> THEN b
    ELSE connect_terminals(
             IF Head(terms) \in DOMAIN b.n.nodes
                /\ (\/ ContainsContinue(b.n.nodes[Head(terms)].content)
                    \/ b.n.nodes[Head(terms)].continue_to_step)
             THEN add_edge(b, Edge(Head(terms), step_id, "continue_to_step", "Continue"))
             ELSE b,
             Tail(terms), step_id)

(* the body of the loop over the steps after _build_step has returned *)
connect_step(b, claim_id, previous_step_id, previous_step_terminals) ==
    IF previous_step_id = claim_id
    THEN add_edge(b, Edge(claim_id, b.step, "contains", None))
    ELSE connect_terminals(b, previous_step_terminals, b.step)

(* for step_data in claim_type_data.get('steps', []) *)
RECURSIVE build_steps(_, _, _, _, _, _)
RECURSIVE build_steps_next(_, _, _, _, _, _)
build_steps(b, steps, claim_id, name, previous_step_id, previous_step_terminals) ==
    IF steps = <<>> THEN b
    ELSE build_steps_next(_build_step(b, Head(steps), claim_id, name), Tail(steps),
                          claim_id, name, previous_step_id, previous_step_terminals)

(* previous_step_id = step_id; previous_step_terminals = terminals *)
build_steps_next(b, steps, claim_id, name, previous_step_id, previous_step_terminals) ==
    build_steps(connect_step(b, claim_id, previous_step_id, previous_step_terminals),
                steps, claim_id, name, b.step, b.terms)

(* _build_claim_type_graph after the claim type node is made *)
build_claim_type_rest(b, claim_type_data, root_id) ==
    build_steps(add_edge(b, Edge(root_id, last_id(b), "contains", None)),
                claim_type_data.steps, last_id(b), claim_type_data.name,
                last_id(b), <<>>)

_build_claim_type_graph(b, claim_type_data, root_id) ==
    build_claim_type_rest(
        add_node(b, Node("claim_type", claim_type_data.name, 0, root_id,
                         claim_type_data.name, FALSE)),
        claim_type_data, root_id)

RECURSIVE build_claim_types(_, _, _)
build_claim_types(b, cts, root_id) ==
    IF cts = <<>> THEN b
    ELSE build_claim_types(_build_claim_type_graph(b, Head(cts), root_id), Tail(cts),
                           root_id)

(* WorldNetworkBuilderV2.build(parsed_data) with the builder's counters c *)
build_V2(c, parsed_data) ==
    build_claim_types(
        add_node([c |-> c, n |-> WorldNetworkV2(parsed_data.title),
                  terms |-> <<>>, step |-> NoId],
                 Node("root", parsed_data.title, 0, NoId, "", FALSE)),
        parsed_data.claim_types, c.node_counter + 1)

(* get_claim_type_graph: the call, its sets and the frames of traverse *)
NoQuery == [state |-> "idle", claim_type |-> "", root_id |-> NoId, visited |-> {},
            nodes |-> {}, edges |-> {}, frames |-> <<>>]

TFrame(node_id) == [node |-> node_id, stage |-> "call", out |-> <<>>]

(* v1: no extractor is at work *)
NoCrawl == [phase |-> "none"]

(* SOPParserV2.__init__: entities_found = {}; calls are the texts the     *)
(* parse hands to _extract_entities, in order, call is the one handled    *)
(* last                                                                    *)
SOPParserV2(calls) == [entities_found |-> <<>>, calls |-> calls, call |-> <<>>]

(* _compute_statistics: max_depths, a dict from claim type to depth; no  *)
(* statistics have been computed for the network                           *)
NoStats == [computed |-> FALSE, max_depths |-> <<>>]

(* get_decision_path: the call, its dict  conditions  (the keys answered  *)
(* True and the keys answered False; a key is the pair that               *)
(* f"{current}_{edge.condition}" joins), path and current                 *)
NoWalk == [state |-> "idle", start |-> NoId, yes |-> {}, no |-> {},
           path |-> <<>>, current |-> NoId]

----------------------------------------------------------------------------
(* Documents *)

Doc(title, lines) == [title |-> title, lines |-> lines]

AmazonClaims == <<"Amazon Claims">>
AllOthers == <<"All Others">>

(* A category with one plain step and no reference *)
DocLeaf ==
    Doc("Leaf", << HeadLine(AllOthers, 7),
                   StepLine(1, "Process the claim.", FALSE, <<>>) >>)

(* A category whose plain steps refer to the codes cs, one step each *)
DocRefs(title, cs) ==
    Doc(title, <<HeadLine(AmazonClaims, 1)>> \o
               [i \in DOMAIN cs |-> StepLine(i, "Refer to", FALSE, <<cs[i]>>)])

(* A code in the preamble and in the question of a decision without       *)
(* branches, another code in a plain step                                  *)
DocNote ==
    Doc("Note",
        << TextLine("See also", 0, <<cB>>),
           HeadLine(AllOthers, 7),
           StepLine(1, "Does it apply?", TRUE, <<cB>>),
           StepLine(2, "Refer to", FALSE, <<cA>>) >>)

(* A decision with a Yes branch (a continuation line and a labelled        *)
(* sub-condition), a No branch, a repeated heading and a plain step        *)
(* naming two codes.                                                       *)
DocDecision ==
    Doc("Decision",
        << HeadLine(AmazonClaims, 1),
           StepLine(1, "Is the provider Vita Health?", TRUE, <<>>),
           MarkLine("yes", "Assign ID and process.", 0, <<>>),
           TextLine("Refer to", 0, <<cA>>),
           LabelLine("Inpatient", "refer to", 1, <<cA>>, FALSE),
           MarkLine("no", "Continue to the next step.", 0, <<>>),
           HeadLine(<<"AMAZON CLAIMS">>, 1),
           StepLine(2, "Refer to both", FALSE, <<cB, cA>>),
           HeadLine(AllOthers, 7),
           StepLine(1, "Deny the claim.", FALSE, <<>>) >>)

MainDocs == {DocRefs("Main", <<cA>>), DocRefs("Main", <<cA, cB>>), DocNote, DocDecision}
ExtDocs == {DocLeaf, DocRefs("Ext", <<cA>>), DocRefs("Ext", <<cB>>), DocNote}
Folders == {NoFile, Unreadable} \cup {FileOf(d) : d \in ExtDocs}

----------------------------------------------------------------------------
(* The processor: build once, then resolve_all any number of times *)

Init ==
    /\ mainDoc \in MainDocs
    /\ pdir \in BOOLEAN
    /\ folder \in [Codes -> Folders]
    /\ pdir = FALSE => \A c \in Codes : folder[c] = NoFile
    /\ hashOrd \in Perms(Codes)
    /\ net = WorldNetwork("")
    /\ phase = "new"
    /\ max_d = 0
    /\ pending = <<>>
    /\ idx = 1
    /\ stack = <<>>
    /\ v2data = <<>>
    /\ v2builder = WorldNetworkBuilderV2
    /\ v2net = WorldNetworkV2("")
    /\ query = NoQuery
    /\ walk = NoWalk
    /\ stats = NoStats
    /\ v2parser = SOPParserV2(<<>>)
    /\ crawl = NoCrawl

(* WorldNetworkProcessor.process, steps 2 and 3 *)
Build ==
    /\ phase = "new"
    /\ net' = build(parse(mainDoc, hashOrd), mainDoc.title)
    /\ phase' = "built"
    /\ UNCHANGED <<mainDoc, pdir, folder, hashOrd, max_d, pending, idx, stack>>
    /\ UNCHANGED v2vars

(* resolve_all up to its for loop *)
ResolveAll(m) ==
    /\ phase \in {"built", "returned"}
    /\ max_d' = m
    /\ stack' = <<>>
    /\ idx' = 1
    /\ IF ~pdir \/ PendingCodes(net) = <<>>
       THEN phase' = "returned" /\ pending' = <<>>
       ELSE phase' = "resolving" /\ pending' = PendingCodes(net)
    /\ UNCHANGED <<mainDoc, pdir, folder, hashOrd, net>>
    /\ UNCHANGED v2vars

(* for pc in pending: self._resolve(pc, net, 0, max_d) *)
ResolveAllNext ==
    /\ phase = "resolving" /\ stack = <<>> /\ idx <= Len(pending)
    /\ stack' = <<Frame(pending[idx], 0)>>
    /\ idx' = idx + 1
    /\ UNCHANGED <<mainDoc, pdir, folder, hashOrd, net, phase, max_d, pending>>
    /\ UNCHANGED v2vars

(* the loop left after its first turn *)
ResolveAllReturn_early ==
    /\ phase = "resolving" /\ stack = <<>> /\ idx > 1
    /\ phase' = "returned"
    /\ UNCHANGED <<mainDoc, pdir, folder, hashOrd, net, max_d, pending, idx, stack>>
    /\ UNCHANGED v2vars

(* for pc in pending  is exhausted: return net *)
ResolveAllReturn ==
    /\ phase = "resolving" /\ stack = <<>> /\ idx > Len(pending)
    /\ phase' = "returned"
    /\ UNCHANGED <<mainDoc, pdir, folder, hashOrd, net, max_d, pending, idx, stack>>
    /\ UNCHANGED v2vars

(* the test off by one *)
DepthExceeded_late(d, m) == d > m

(* _resolve: if d >= max_d: return False *)
DepthExceeded(d, m) == d >= m

ResolveDepthLimit ==
    /\ phase = "resolving" /\ stack # <<>> /\ Top.stage = "enter"
    /\ DepthExceeded(Top.d, max_d)
    /\ stack' = Pop
    /\ UNCHANGED <<mainDoc, pdir, folder, hashOrd, net, phase, max_d, pending, idx>>
    /\ UNCHANGED v2vars

(* a missing file that ends the whole pass *)
ResolveNotFound_abort ==
    /\ phase = "resolving" /\ stack # <<>> /\ Top.stage = "enter"
    /\ ~DepthExceeded(Top.d, max_d)
    /\ _find(Top.pc) = None
    /\ net' = set_status(net, Top.pc, "not_found", None)
    /\ stack' = <<>>
    /\ idx' = Len(pending) + 1
    /\ UNCHANGED <<mainDoc, pdir, folder, hashOrd, phase, max_d, pending>>
    /\ UNCHANGED v2vars

(* _resolve: if not fp: status = not_found; return False *)
ResolveNotFound ==
    /\ phase = "resolving" /\ stack # <<>> /\ Top.stage = "enter"
    /\ ~DepthExceeded(Top.d, max_d)
    /\ _find(Top.pc) = None
    /\ net' = set_status(net, Top.pc, "not_found", None)
    /\ stack' = Pop
    /\ UNCHANGED <<mainDoc, pdir, folder, hashOrd, phase, max_d, pending, idx>>
    /\ UNCHANGED v2vars

(* _extract called outside the try: the exception leaves resolve_all *)
ResolveError_propagates ==
    /\ phase = "resolving" /\ stack # <<>> /\ Top.stage = "enter"
    /\ ~DepthExceeded(Top.d, max_d)
    /\ _find(Top.pc) # None
    /\ ExtractRaises(_find(Top.pc))
    /\ stack' = <<>>
    /\ idx' = Len(pending) + 1
    /\ UNCHANGED <<mainDoc, pdir, folder, hashOrd, net, phase, max_d, pending>>
    /\ UNCHANGED v2vars

(* _resolve: _extract raises, except Exception: status = error *)
ResolveError ==
    /\ phase = "resolving" /\ stack # <<>> /\ Top.stage = "enter"
    /\ ~DepthExceeded(Top.d, max_d)
    /\ _find(Top.pc) # None
    /\ ExtractRaises(_find(Top.pc))
    /\ net' = set_status(net, Top.pc, "error", "cannot extract")
    /\ stack' = Pop
    /\ UNCHANGED <<mainDoc, pdir, folder, hashOrd, phase, max_d, pending, idx>>
    /\ UNCHANGED v2vars

(* _resolve: extract, parse, build, merge, status = resolved *)
ResolveMerge ==
    /\ phase = "resolving" /\ stack # <<>> /\ Top.stage = "enter"
    /\ ~DepthExceeded(Top.d, max_d)
    /\ _find(Top.pc) # None
    /\ ~ExtractRaises(_find(Top.pc))
    /\ LET txt    == _extract(_find(Top.pc))
           parsed == parse(txt, hashOrd)
           sub    == build(parsed, parsed.title)
       IN  /\ net' = set_status(_merge(net, sub, Top.pc), Top.pc, "resolved", None)
           /\ stack' = [stack EXCEPT ![Len(stack)].stage = "loop",
                                     ![Len(stack)].todo = RefKeys(sub)]
    /\ UNCHANGED <<mainDoc, pdir, folder, hashOrd, phase, max_d, pending, idx>>
    /\ UNCHANGED v2vars

(* recursing whatever the status of cc *)
Recurse_any(g, cc) == TRUE

(* the condition under which the loop of _resolve recurses into cc *)
Recurse(g, cc) == StatusOf(g, cc) = "pending"

(* _resolve: one iteration of  for cc in sub.procedure_refs.keys() *)
ResolveLoop ==
    /\ phase = "resolving" /\ stack # <<>> /\ Top.stage = "loop"
    /\ Top.todo # <<>>
    /\ LET cc == Head(Top.todo)
           g1 == register_ref(net, cc)
           st == [stack EXCEPT ![Len(stack)].todo = Tail(@)]
       IN  /\ net' = g1
           /\ stack' = IF Recurse(g1, cc) THEN Append(st, Frame(cc, Top.d + 1)) ELSE st
    /\ UNCHANGED <<mainDoc, pdir, folder, hashOrd, phase, max_d, pending, idx>>
    /\ UNCHANGED v2vars

(* _resolve: return True *)
ResolveReturn ==
    /\ phase = "resolving" /\ stack # <<>> /\ Top.stage = "loop"
    /\ Top.todo = <<>>
    /\ stack' = Pop
    /\ UNCHANGED <<mainDoc, pdir, folder, hashOrd, net, phase, max_d, pending, idx>>
    /\ UNCHANGED v2vars

Next ==
    \/ Build
    \/ \E m \in 0..MaxDepth : ResolveAll(m)
    \/ ResolveAllNext
    \/ ResolveAllReturn
    \/ ResolveDepthLimit
    \/ ResolveNotFound
    \/ ResolveError
    \/ ResolveMerge
    \/ ResolveLoop
    \/ ResolveReturn

Spec == Init /\ [][Next]_vars

(* An index page: pattern 11 takes any "### **...**" line as a heading,   *)
(* here one that names a procedure and one of its categories,             *)
(* "### **PR.OP.CL.0001/All Others**"; PROC_PAT finds the code in it.      *)
DocIndex ==
    Doc("Index",
        << HeadLine(AmazonClaims, 1),
           StepLine(1, "Process the claim.", FALSE, <<>>),
           [HeadLine(<<cA>> \o AllOthers, 11) EXCEPT !.refs = <<cA>>],
           StepLine(1, "Refer to", FALSE, <<cA>>) >>)

(* A page that opens with its table of contents, "## Amazon Claims" and  *)
(* "## All Others" (entries 8 and 10 of PATTERNS), and then has the two   *)
(* sections in the other order under "### **...**" headings (entries 7    *)
(* and 1).                                                                 *)
DocContents ==
    Doc("Contents",
        << HeadLine(AmazonClaims, 8),
           HeadLine(AllOthers, 10),
           HeadLine(AllOthers, 7),
           StepLine(1, "Process the claim.", FALSE, <<>>),
           HeadLine(AmazonClaims, 1),
           StepLine(1, "Refer to", FALSE, <<cA>>) >>)

InitIndex ==
    /\ mainDoc \in {DocIndex, DocContents}
    /\ pdir \in BOOLEAN
    /\ folder \in [Codes -> Folders]
    /\ pdir = FALSE => \A c \in Codes : folder[c] = NoFile
    /\ hashOrd \in Perms(Codes)
    /\ net = WorldNetwork("")
    /\ phase = "new"
    /\ max_d = 0
    /\ pending = <<>>
    /\ idx = 1
    /\ stack = <<>>
    /\ v2data = <<>>
    /\ v2builder = WorldNetworkBuilderV2
    /\ v2net = WorldNetworkV2("")
    /\ query = NoQuery
    /\ walk = NoWalk
    /\ stats = NoStats
    /\ v2parser = SOPParserV2(<<>>)
    /\ crawl = NoCrawl

SpecIndex == InitIndex /\ [][Next]_vars

----------------------------------------------------------------------------
(* V2 documents as SOPParserV2 hands them to the builder                   *)

MaxCrawlDepth == 1
MaxSessionLosses == 1

MaxBuilds == 2

Branch(type, action, nested, scenarios, refs) ==
    IF ContinueToNextStep(action)
    THEN [type |-> type, action |-> action, continue_to_step |-> TRUE,
          nested_decisions |-> <<>>, sub_scenarios |-> <<>>, procedure_refs |-> <<>>]
    ELSE [type |-> type, action |-> action, continue_to_step |-> FALSE,
          nested_decisions |-> nested, sub_scenarios |-> scenarios,
          procedure_refs |-> refs]

Sub(type, action) == [type |-> type, action |-> action]

Step(num, question, branches) ==
    [step_number |-> num, question |-> question,
     is_decision |-> \E i \in DOMAIN branches : branches[i].type \in {"yes", "no"},
     branches |-> branches]

(* a decision whose markers the branch patterns do not match *)
BareDecision(num, question) ==
    [step_number |-> num, question |-> question, is_decision |-> TRUE,
     branches |-> <<>>]

(* Both branches of step 1 continue, so step 2 is entered from two nodes. *)
AmazonClaimType ==
    [name |-> "AMAZON CLAIMS",
     steps |-> << Step(1, "Is the provider listed?",
                       << Branch("yes", "Pay and CONTINUE", <<>>, <<>>,
                                 <<"ref_PR_OP_CL_0001">>),
                          Branch("no", "Continue to next step", <<>>, <<>>, <<>>) >>),
                  Step(2, "Deny the claim.", <<>>) >>]

(* Nested decisions, a sub-scenario and plain steps chained by "continue". *)
OthersClaimType ==
    [name |-> "ALL OTHER CLAIMS",
     steps |-> << Step(1, "Is it a duplicate?",
                       << Branch("yes", "Check the dates.",
                                 << Sub("yes", "continue review"),
                                    Sub("no", "Deny the claim.") >>, <<>>, <<>>),
                          Branch("unsure", "Ask.", <<>>,
                                 << Sub("Provider-submitted", "Pay and CONTINUE") >>,
                                 <<>>) >>),
                  Step(2, "continue review", <<>>),
                  Step(3, "Route to team.", <<>>) >>]

EmptyClaimType == [name |-> "NOTES", steps |-> <<>>]

(* A second section with the name of the first; its step 2 follows a step *)
(* that does not continue.                                                 *)
RepeatedClaimType ==
    [name |-> "AMAZON CLAIMS",
     steps |-> << BareDecision(1, "Is the claim clean?"),
                  Step(2, "Route to team.", <<>>) >>]

ClaimTypes == {AmazonClaimType, OthersClaimType, EmptyClaimType, RepeatedClaimType}

ParsedData(cts) == [title |-> "SOP", claim_types |-> cts]

ParsedDocs ==
    {ParsedData(<<AmazonClaimType, OthersClaimType>>),
     ParsedData(<<OthersClaimType, AmazonClaimType>>),
     ParsedData(<<AmazonClaimType, EmptyClaimType, RepeatedClaimType>>),
     ParsedData(<<RepeatedClaimType, EmptyClaimType>>),
     ParsedData(<<OthersClaimType>>),
     ParsedData(<<EmptyClaimType>>)}

(* 'Overview' sections are skipped by the parser: never a claim type *)
QueryNames == {ct.name : ct \in ClaimTypes} \cup {"Overview"}

----------------------------------------------------------------------------
(* V2: build documents with one builder, query the last network            *)

InitV2 ==
    /\ mainDoc = DocLeaf
    /\ pdir = FALSE
    /\ folder = [c \in Codes |-> NoFile]
    /\ hashOrd = CHOOSE p \in Perms(Codes) : TRUE
    /\ net = WorldNetwork("")
    /\ phase = "new"
    /\ max_d = 0
    /\ pending = <<>>
    /\ idx = 1
    /\ stack = <<>>
    /\ v2data = <<>>
    /\ v2builder = WorldNetworkBuilderV2
    /\ v2net = WorldNetworkV2("")
    /\ query = NoQuery
    /\ walk = NoWalk
    /\ stats = NoStats
    /\ v2parser = SOPParserV2(<<>>)
    /\ crawl = NoCrawl

(* network = self.builder.build(parsed_data) *)
V2Build(parsed_data) ==
    /\ query.state # "running"
    /\ v2builder.builds < MaxBuilds
    /\ LET b == build_V2(v2builder, parsed_data)
       IN  /\ v2builder' = [b.c EXCEPT !.builds = @ + 1]
           /\ v2net' = b.n
    /\ v2data' = parsed_data
    /\ query' = NoQuery
    /\ walk' = NoWalk
    /\ stats' = NoStats
    /\ UNCHANGED <<v3vars, v2parser, crawl>>

(* A caller of the class links a node to a section's claim type node:     *)
(* network.add_edge(Edge(..., edge_type=EdgeType.PROCEED_TO_SECTION)), at  *)
(* most once per network and between nodes of the network. The edge may   *)
(* close a cycle or join two claim types.                                  *)
V2AddEdge(src, tgt) ==
    /\ query.state # "running"
    /\ src \in DOMAIN v2net.nodes /\ tgt \in DOMAIN v2net.nodes
    /\ v2net.nodes[tgt].node_type = "claim_type"
    /\ \A e \in DOMAIN v2net.edges : v2net.edges[e].edge_type # "proceed_to_section"
    /\ v2net' = [v2net EXCEPT !.edges =
                     Put(@, v2builder.edge_counter + 1,
                         Edge(src, tgt, "proceed_to_section", None))]
    /\ query' = NoQuery
    /\ walk' = NoWalk
    /\ stats' = NoStats
    /\ UNCHANGED <<v3vars, v2data, v2builder, v2parser, crawl>>

(* get_claim_type_graph(claim_type) up to the call traverse(root_id) *)
QueryStart(claim_type) ==
    /\ v2net.root_id # NoId
    /\ query.state # "running"
    /\ IF claim_type \notin DOMAIN v2net.claim_type_roots
       THEN query' = [NoQuery EXCEPT !.state = "done", !.claim_type = claim_type]
       ELSE query' = [NoQuery EXCEPT !.state = "running", !.claim_type = claim_type,
                                     !.root_id = v2net.claim_type_roots[claim_type],
                                     !.frames = <<TFrame(v2net.claim_type_roots[claim_type])>>]
    /\ UNCHANGED <<v3vars, v2data, v2builder, v2net, walk, stats, v2parser, crawl>>

TTop == query.frames[Len(query.frames)]
TPop == SubSeq(query.frames, 1, Len(query.frames) - 1)

(* traverse(node_id): if node_id in visited: return *)
TraverseVisited ==
    /\ query.state = "running" /\ query.frames # <<>>
    /\ TTop.stage = "call"
    /\ TTop.node \in query.visited
    /\ query' = [query EXCEPT !.frames = TPop]
    /\ UNCHANGED <<v3vars, v2data, v2builder, v2net, walk, stats, v2parser, crawl>>

(* traverse(node_id): visited.add, nodes[node_id] = ..., the edge list *)
TraverseEnter ==
    /\ query.state = "running" /\ query.frames # <<>>
    /\ TTop.stage = "call"
    /\ TTop.node \notin query.visited
    /\ query' = [query EXCEPT
                    !.visited = @ \cup {TTop.node},
                    !.nodes = IF TTop.node \in DOMAIN v2net.nodes
                              THEN @ \cup {TTop.node} ELSE @,
                    !.frames = Append(TPop,
                                      [node |-> TTop.node, stage |-> "loop",
                                       out |-> get_outgoing_edges(v2net, TTop.node)])]
    /\ UNCHANGED <<v3vars, v2data, v2builder, v2net, walk, stats, v2parser, crawl>>

(* for edge in ...: edges[edge.id] = edge; traverse(edge.target_id) *)
TraverseEdge ==
    /\ query.state = "running" /\ query.frames # <<>>
    /\ TTop.stage = "loop"
    /\ TTop.out # <<>>
    /\ query' = [query EXCEPT
                    !.edges = @ \cup {Head(TTop.out)},
                    !.frames = Append(Append(TPop, [TTop EXCEPT !.out = Tail(@)]),
                                      TFrame(v2net.edges[Head(TTop.out)].target_id))]
    /\ UNCHANGED <<v3vars, v2data, v2builder, v2net, walk, stats, v2parser, crawl>>

(* the loop of traverse is exhausted: return to the caller *)
TraverseReturn ==
    /\ query.state = "running" /\ query.frames # <<>>
    /\ TTop.stage = "loop"
    /\ TTop.out = <<>>
    /\ query' = [query EXCEPT !.frames = TPop]
    /\ UNCHANGED <<v3vars, v2data, v2builder, v2net, walk, stats, v2parser, crawl>>

(* traverse(root_id) has returned: return the dict *)
QueryReturn ==
    /\ query.state = "running" /\ query.frames = <<>>
    /\ query' = [query EXCEPT !.state = "done"]
    /\ UNCHANGED <<v3vars, v2data, v2builder, v2net, walk, stats, v2parser, crawl>>

NextV2 ==
    \/ \E d \in ParsedDocs : V2Build(d)
    \/ \E src, tgt \in DOMAIN v2net.nodes : V2AddEdge(src, tgt)
    \/ \E ct \in QueryNames : QueryStart(ct)
    \/ TraverseVisited
    \/ TraverseEnter
    \/ TraverseEdge
    \/ TraverseReturn
    \/ QueryReturn

SpecV2 == InitV2 /\ [][NextV2]_vars

----------------------------------------------------------------------------
(* V2: get_decision_path on a built network                                *)

(* A branch with a nested decision and a sub-scenario: its node has a     *)
(* nested_yes edge and, after it, a sequence edge.                         *)
MixedClaimType ==
    [name |-> "PHARMACY CLAIMS",
     steps |-> << Step(1, "Is a referral on file?",
                       << Branch("yes", "Check the dates.",
                                 << Sub("yes", "Pay and CONTINUE") >>,
                                 << Sub("Member-submitted", "Deny the claim.") >>,
                                 <<>>),
                          Branch("no", "Deny the claim.", <<>>, <<>>, <<>>) >>),
                  Step(2, "Route to team.", <<>>) >>]

PathDocs ==
    {ParsedData(<<AmazonClaimType, OthersClaimType>>),
     ParsedData(<<MixedClaimType>>),
     ParsedData(<<RepeatedClaimType, EmptyClaimType>>)}

(* the condition labels the builder writes on its branch edges *)
Labels == {"YES", "NO", "UNSURE", "Continue"}

(* for edge in outgoing: the first sequence edge or the first edge whose  *)
(* key is in conditions with a true value, taken as if none were answered *)
(* when it is the only way on                                              *)
RECURSIVE next_node_default(_, _, _)
next_node_default(g, w, outgoing) ==
    IF outgoing = <<>> THEN NoId
    ELSE LET edge == g.edges[Head(outgoing)]
         IN  IF edge.edge_type = "sequence" THEN edge.target_id
             ELSE IF edge.condition # None
                     /\ (<<w.current, edge.condition>> \in w.yes \/ Len(outgoing) = 1)
                  THEN edge.target_id
                  ELSE next_node_default(g, w, Tail(outgoing))

(* for edge in outgoing: ... next_node = edge.target_id; break *)
RECURSIVE next_node(_, _, _)
next_node(g, w, outgoing) ==
    IF outgoing = <<>> THEN NoId
    ELSE LET edge == g.edges[Head(outgoing)]
         IN  IF edge.edge_type = "sequence" THEN edge.target_id
             ELSE IF edge.condition # None /\ <<w.current, edge.condition>> \in w.yes
                  THEN edge.target_id
                  ELSE next_node(g, w, Tail(outgoing))

InitPath ==
    /\ mainDoc = DocLeaf
    /\ pdir = FALSE
    /\ folder = [c \in Codes |-> NoFile]
    /\ hashOrd = CHOOSE p \in Perms(Codes) : TRUE
    /\ net = WorldNetwork("")
    /\ phase = "new"
    /\ max_d = 0
    /\ pending = <<>>
    /\ idx = 1
    /\ stack = <<>>
    /\ v2data \in PathDocs
    /\ v2builder = [build_V2(WorldNetworkBuilderV2, v2data).c EXCEPT !.builds = 1]
    /\ v2net = build_V2(WorldNetworkBuilderV2, v2data).n
    /\ query = NoQuery
    /\ walk = NoWalk
    /\ stats = NoStats
    /\ v2parser = SOPParserV2(<<>>)
    /\ crawl = NoCrawl

(* get_decision_path(start_node_id, conditions): the labels of L are      *)
(* answered True at every node but  silent, and False at  silent. The     *)
(* call reads the network and writes nothing, so one call is followed     *)
(* from the built network.                                                 *)
PathStart(start_node_id, L, silent) ==
    /\ walk.state = "idle"
    /\ walk' = [state |-> "running", start |-> start_node_id,
                yes |-> {<<n, l>> : n \in DOMAIN v2net.nodes \ {silent}, l \in L},
                no |-> {<<n, l>> : n \in DOMAIN v2net.nodes \cap {silent}, l \in L},
                path |-> <<>>, current |-> start_node_id]
    /\ UNCHANGED <<v3vars, v2data, v2builder, v2net, query, stats, v2parser, crawl>>

(* one turn of  while current:  *)
PathStep ==
    /\ walk.state = "running"
    /\ walk.current # NoId
    /\ walk' = [walk EXCEPT
                   !.path = Append(@, walk.current),
                   !.current =
                       IF walk.current \notin DOMAIN v2net.nodes THEN NoId
                       ELSE next_node(v2net, walk,
                                      get_outgoing_edges(v2net, walk.current))]
    /\ UNCHANGED <<v3vars, v2data, v2builder, v2net, query, stats, v2parser, crawl>>

(* the loop is left: return path *)
PathReturn ==
    /\ walk.state = "running"
    /\ walk.current = NoId
    /\ walk' = [walk EXCEPT !.state = "done"]
    /\ UNCHANGED <<v3vars, v2data, v2builder, v2net, query, stats, v2parser, crawl>>

NextPath ==
    \/ \E start \in DOMAIN v2net.nodes \cup {NoId, Cardinality(DOMAIN v2net.nodes) + 1},
          L \in SUBSET Labels, silent \in DOMAIN v2net.nodes \cup {NoId} :
            PathStart(start, L, silent)
    \/ PathStep
    \/ PathReturn

SpecPath == InitPath /\ [][NextPath]_vars

----------------------------------------------------------------------------
(* V2: _compute_statistics on a built network                              *)

(* The Yes branch of step 1 continues at once, the Unsure branch          *)
(* continues from its sub-scenario: step 2 is entered from two nodes at   *)
(* different distances from the claim type node.                           *)
ShortcutClaimType ==
    [name |-> "PHARMACY CLAIMS",
     steps |-> << Step(1, "Is a referral on file?",
                       << Branch("yes", "Pay and CONTINUE", <<>>, <<>>, <<>>),
                          Branch("unsure", "Ask.", <<>>,
                                 << Sub("Provider-submitted", "continue review") >>,
                                 <<>>) >>),
                  Step(2, "Route to team.", <<>>) >>]

StatsDocs ==
    ParsedDocs \cup {ParsedData(<<ShortcutClaimType>>),
                     ParsedData(<<ShortcutClaimType, AmazonClaimType>>)}

(* max(max_depth, depth) *)
Max(a, b) == IF a >= b THEN a ELSE b

(* calc_depth(node_id, depth) on st = [visited, max_depth], the nonlocal  *)
(* names of the closure                                                    *)
RECURSIVE calc_depth(_, _, _, _)
RECURSIVE calc_depth_edges(_, _, _, _)
calc_depth(g, st, node_id, depth) ==
    IF node_id \in st.visited THEN st
    ELSE calc_depth_edges(g, [visited |-> st.visited \cup {node_id},
                              max_depth |-> Max(st.max_depth, depth)],
                          get_outgoing_edges(g, node_id), depth)

(* for edge in network.get_outgoing_edges(node_id) *)
calc_depth_edges(g, st, outgoing, depth) ==
    IF outgoing = <<>> THEN st
    ELSE calc_depth_edges(g, calc_depth(g, st, g.edges[Head(outgoing)].target_id,
                                        depth + 1),
                          Tail(outgoing), depth)

(* max_depths of _compute_statistics *)
max_depths(g) ==
    [claim_type \in DOMAIN g.claim_type_roots |->
        calc_depth(g, [visited |-> {}, max_depth |-> 0],
                   g.claim_type_roots[claim_type], 0).max_depth]

InitStats ==
    /\ mainDoc = DocLeaf
    /\ pdir = FALSE
    /\ folder = [c \in Codes |-> NoFile]
    /\ hashOrd = CHOOSE p \in Perms(Codes) : TRUE
    /\ net = WorldNetwork("")
    /\ phase = "new"
    /\ max_d = 0
    /\ pending = <<>>
    /\ idx = 1
    /\ stack = <<>>
    /\ v2data \in StatsDocs
    /\ v2builder = [build_V2(WorldNetworkBuilderV2, v2data).c EXCEPT !.builds = 1]
    /\ v2net = build_V2(WorldNetworkBuilderV2, v2data).n
    /\ query = NoQuery
    /\ walk = NoWalk
    /\ stats = NoStats
    /\ v2parser = SOPParserV2(<<>>)
    /\ crawl = NoCrawl

(* stats = self._compute_statistics(network) *)
ComputeStatistics ==
    /\ ~stats.computed
    /\ stats' = [computed |-> TRUE, max_depths |-> max_depths(v2net)]
    /\ UNCHANGED <<v3vars, v2data, v2builder, v2net, query, walk, v2parser, crawl>>

NextStats ==
    \/ \E src, tgt \in DOMAIN v2net.nodes : V2AddEdge(src, tgt)
    \/ ComputeStatistics

SpecStats == InitStats /\ [][NextStats]_vars

----------------------------------------------------------------------------
(* Properties *)

Terminal == {"resolved", "not_found", "error"}

LinkedRoots(g) == {n \in DOMAIN g.nodes : g.nodes[n].node_type = "linked_procedure"}

Entering == phase = "resolving" /\ stack # <<>> /\ Top.stage = "enter"

OthersKeep(c) ==
    /\ RefCodes(net') = RefCodes(net)
    /\ \A o \in RefCodes(net) \ {c} :
          net'.procedure_refs[RefIndex(net', o)] = net.procedure_refs[RefIndex(net, o)]

(* Position of code c in the list pending *)
Before(c1, c2) ==
    \E i, j \in DOMAIN pending : i < j /\ pending[i] = c1 /\ pending[j] = c2

(* Nodes reachable from the set from along the edges of g *)
RECURSIVE Reach(_, _)
Reach(g, from) ==
    LET more == {g.edges[e].target_id : e \in {x \in DOMAIN g.edges : g.edges[x].source_id \in from}}
    IN  IF more \subseteq from THEN from ELSE Reach(g, from \cup more)

(* C1: once the status of a reference is resolved, not_found or error, no *)
(* step of resolve_all or _resolve changes it.                             *)
C1_StatusMonotonic ==
    [][\A c \in RefCodes(net) :
          StatusOf(net, c) \in Terminal =>
              c \in RefCodes(net') /\ StatusOf(net', c) = StatusOf(net, c)]_vars

(* _resolve is entered again for a code that is already resolved *)
C1_Witness == Entering /\ Top.d < max_d /\ StatusOf(net, Top.pc) = "resolved"

(* The work resolve_all still has to do, as a number: the codes of its     *)
(* list not yet started, the codes not yet in a final status, and the      *)
(* frames of _resolve with the rest of their loops.                        *)
NotFinal == Codes \ {c \in RefCodes(net) : StatusOf(net, c) \in Terminal}

FrameWork(f) ==
    IF f.stage = "loop" THEN 1 + 2 * Len(f.todo)
    ELSE IF f.d = 0 THEN 2 * NumCodes + 2 ELSE 1

RECURSIVE StackWork(_)
StackWork(st) == IF st = <<>> THEN 0 ELSE FrameWork(Head(st)) + StackWork(Tail(st))

Work ==
    (IF phase = "resolving" THEN 1 ELSE 0)
    + (Len(pending) + 1 - idx) * (2 * NumCodes + 3)
    + Cardinality(NotFinal) * (2 * NumCodes + 2)
    + StackWork(stack)

(* C2: resolve_all terminates whatever the documents and max_d, also when  *)
(* two documents refer to each other: every step of a running pass lowers  *)
(* the work left, which is never negative; and the number of               *)
(* linked-procedure nodes stays bounded (no code is merged more than       *)
(* twice).                                                                 *)
C2_Terminates ==
    /\ [][phase = "resolving" => Work' < Work]_vars
    /\ [](Work >= 0 /\ Cardinality(LinkedRoots(net)) <= 2 * NumCodes)

(* resolve_all(max_d = 2) has returned on two documents that refer to each other *)
C2_Witness ==
    /\ phase = "returned" /\ max_d = 2
    /\ folder[cA] = FileOf(DocRefs("Ext", <<cB>>))
    /\ folder[cB] = FileOf(DocRefs("Ext", <<cA>>))
    /\ \A c \in {cA, cB} : c \in RefCodes(net) /\ StatusOf(net, c) = "resolved"

(* C3: a code is merged at most once: no two linked-procedure nodes carry  *)
(* the same reference code.                                                *)
C3_OneLinkedRootPerCode ==
    \A n1, n2 \in LinkedRoots(net) :
        net.nodes[n1].procedure_code = net.nodes[n2].procedure_code => n1 = n2

(* C4: a code that is not found becomes not_found, no other reference      *)
(* changes in that step, and the pass goes on: when resolve_all(max_d >=   *)
(* 1) returns, no code of its pending list is still pending.               *)
C4_NotFoundIsLeaf ==
    /\ [][(Entering /\ Top.d < max_d /\ _find(Top.pc) = None) =>
            /\ StatusOf(net', Top.pc) = "not_found"
            /\ OthersKeep(Top.pc)
            /\ pending' = pending /\ idx' = idx /\ stack' = Pop]_vars
    /\ [](phase = "returned" /\ max_d >= 1 =>
            \A c \in Range(pending) : StatusOf(net, c) # "pending")

(* a code was not found and a later code of the same pass was resolved *)
C4_Witness ==
    /\ phase = "returned"
    /\ \E c1, c2 \in Range(pending) :
          /\ Before(c1, c2)
          /\ StatusOf(net, c1) = "not_found"
          /\ StatusOf(net, c2) = "resolved"

(* C5: a reference reached at depth d >= max_d is pending and stays so,    *)
(* and the network is left as it is; with max_d = 0 no step of the pass    *)
(* changes the network.                                                    *)
C5_DepthLimited ==
    [][/\ (Entering /\ Top.d >= max_d) =>
            (net' = net /\ StatusOf(net, Top.pc) = "pending" /\ stack' = Pop)
       /\ (phase = "resolving" /\ max_d = 0) => net' = net]_vars

(* a pass with max_d = 1 has returned and left a code of a merged document pending *)
C5_Witness ==
    /\ phase = "returned" /\ max_d = 1
    /\ \E c1, c2 \in RefCodes(net) :
          StatusOf(net, c1) = "resolved" /\ StatusOf(net, c2) = "pending"

(* C6: when extraction raises, the reference becomes error with a message, *)
(* nothing else changes, the pass goes on with the other references and    *)
(* returns: no code of its pending list is left pending and every          *)
(* unreadable one is error.                                                *)
C6_ErrorContained ==
    /\ [][(Entering /\ Top.d < max_d /\ _find(Top.pc) # None
              /\ ExtractRaises(_find(Top.pc))) =>
            /\ StatusOf(net', Top.pc) = "error"
            /\ net'.procedure_refs[RefIndex(net', Top.pc)].error_message # None
            /\ OthersKeep(Top.pc)
            /\ phase' = "resolving"
            /\ pending' = pending /\ idx' = idx /\ stack' = Pop]_vars
    /\ [](phase = "returned" /\ max_d >= 1 =>
            \A c \in Range(pending) :
                /\ StatusOf(net, c) # "pending"
                /\ folder[c].file = "unreadable" => StatusOf(net, c) = "error")

(* a code ended in error and a later code of the same pass was attempted *)
C6_Witness ==
    /\ phase = "returned"
    /\ \E c1, c2 \in Range(pending) :
          /\ Before(c1, c2)
          /\ StatusOf(net, c1) = "error"
          /\ StatusOf(net, c2) \in {"resolved", "not_found"}

(* C7: after the build and after every resolve_all, every node is          *)
(* reachable from the root along the edges.                                *)
C7_Connectivity ==
    phase \in {"built", "returned"} => DOMAIN net.nodes \subseteq Reach(net, {1})

(* C8: after the build, the keys of procedure_refs are the codes that a    *)
(* scan of the raw text finds, each once, and all are pending.             *)
C8_ReferenceCompleteness ==
    phase = "built" =>
        /\ RefCodes(net) = Range(LineCodes(mainDoc.lines))
        /\ Len(net.procedure_refs) = Cardinality(RefCodes(net))
        /\ \A c \in RefCodes(net) : StatusOf(net, c) = "pending"

(* built from a text with a code that no reference node points at *)
C8_Witness ==
    /\ phase = "built"
    /\ \E c \in RefCodes(net) :
          \A n \in DOMAIN net.nodes : net.nodes[n].procedure_code # c

(* work left in a running traversal: unvisited nodes and open frames *)
RECURSIVE FramesWork(_)
FramesWork(fs) ==
    IF fs = <<>> THEN 0
    ELSE (IF Head(fs).stage = "call" THEN 1 ELSE 1 + 2 * Len(Head(fs).out))
         + FramesWork(Tail(fs))

TraverseWork ==
    (IF query.state = "running" THEN 1 ELSE 0)
    + Cardinality(DOMAIN v2net.nodes \ query.visited)
          * (2 * Cardinality(DOMAIN v2net.edges) + 2)
    + FramesWork(query.frames)

(* C9: get_claim_type_graph returns only nodes reachable from the root of  *)
(* the claim type asked for, every edge it returns has both ends among the *)
(* returned nodes, and every step of the traversal reduces the work left,  *)
(* so the traversal ends.                                                  *)
C9_SubgraphIsolation ==
    /\ [](query.state # "idle" =>
              query.nodes \subseteq Reach(v2net, {query.root_id}))
    /\ [](query.state = "done" =>
              \A e \in query.edges :
                  /\ v2net.edges[e].source_id \in query.nodes
                  /\ v2net.edges[e].target_id \in query.nodes)
    /\ [][query.state = "running" => TraverseWork' < TraverseWork]_vars
    /\ [](TraverseWork >= 0)

(* a finished query on a network with another claim type, whose nodes are *)
(* left out, where a returned edge leads back to the root of the claim    *)
(* type asked for (a cycle)                                                *)
C9_Witness ==
    /\ query.state = "done"
    /\ query.root_id # NoId
    /\ \E n \in DOMAIN v2net.nodes :
          v2net.nodes[n].node_type = "claim_type" /\ n \notin query.nodes
    /\ \E e \in query.edges :
          /\ v2net.edges[e].target_id = query.root_id
          /\ v2net.edges[e].source_id # query.root_id

(* C10: both ends of every edge were nodes of the network when the edge    *)
(* was created, and are nodes of it now.                                   *)
C10_EdgeEndpoints ==
    /\ 1..net.nc \subseteq DOMAIN net.nodes
    /\ \A e \in DOMAIN net.edges :
          /\ net.edges[e].made_at <= net.nc
          /\ net.edges[e].source_id \in 1..net.edges[e].made_at
          /\ net.edges[e].target_id \in 1..net.edges[e].made_at

(* a merge has added deep-link edges and copied edges *)
C10_Witness ==
    /\ phase = "returned"
    /\ \E e \in DOMAIN net.edges : net.edges[e].edge_type = "deep_link"
    /\ \E e \in DOMAIN net.edges :
          net.edges[e].edge_type = "contains" /\ net.edges[e].source_id \in LinkedRoots(net)

----------------------------------------------------------------------------
(* Properties of the build *)

(* The shape of the tree below node n without its ids: kind and content of *)
(* n and, for every outgoing edge, its kind, its condition and the shape   *)
(* below its target, each with the number of times it occurs.              *)
RECURSIVE Shape(_, _)
Shape(g, n) ==
    LET out  == {e \in DOMAIN g.edges : g.edges[e].source_id = n}
        kid  == [e \in out |-> <<g.edges[e].edge_type, g.edges[e].condition,
                                 Shape(g, g.edges[e].target_id)>>]
    IN  [kind |-> g.nodes[n].node_type, content |-> g.nodes[n].content,
         kids |-> {<<kid[e], Cardinality({f \in out : kid[f] = kid[e]})>> : e \in out}]

(* Two built networks are the same up to a renumbering of their ids: both *)
(* are trees below node 1 that holds every node.                           *)
Isomorphic(g, h) ==
    /\ Cardinality(DOMAIN g.nodes) = Cardinality(DOMAIN h.nodes)
    /\ Cardinality(DOMAIN g.edges) = Cardinality(DOMAIN h.edges)
    /\ Reach(g, {1}) = DOMAIN g.nodes
    /\ Reach(h, {1}) = DOMAIN h.nodes
    /\ Shape(g, 1) = Shape(h, 1)

(* C11: a second parse and build of the same raw text, in this process or *)
(* in one that iterates sets in another order, gives a network that is    *)
(* the network built first up to a renumbering of the ids.                 *)
C11_Determinism ==
    phase = "built" =>
        \A ord \in Perms(Codes) :
            Isomorphic(net, build(parse(mainDoc, ord), mainDoc.title))

(* built from a text for which the other iteration order numbers the      *)
(* nodes differently                                                       *)
C11_Witness ==
    /\ phase = "built"
    /\ \E ord \in Perms(Codes) :
          build(parse(mainDoc, ord), mainDoc.title).nodes # net.nodes

(* the edges of a V2 network that its builder made *)
BuiltEdges(g) ==
    [e \in {x \in DOMAIN g.edges : g.edges[x].edge_type # "proceed_to_section"} |->
        g.edges[e]]

(* C12: a network is the network that a first build of the same record    *)
(* makes, id by id: the k-th node and the k-th edge have the same id,      *)
(* kind and content, also when the builder has built before.               *)
C12_SameIds ==
    v2net.root_id # NoId =>
        /\ v2net.nodes = build_V2(WorldNetworkBuilderV2, v2data).n.nodes
        /\ BuiltEdges(v2net) = build_V2(WorldNetworkBuilderV2, v2data).n.edges

(* the outgoing edges of n whose condition is answered True for n *)
Answered(n) ==
    SelectSeq(get_outgoing_edges(v2net, n),
              LAMBDA e : /\ v2net.edges[e].condition # None
                         /\ <<n, v2net.edges[e].condition>> \in walk.yes)

Sequences(n) ==
    SelectSeq(get_outgoing_edges(v2net, n),
              LAMBDA e : v2net.edges[e].edge_type = "sequence")

(* C13: the path of get_decision_path starts at the start node and lists  *)
(* the nodes in the order of the walk; a decision node is left by the     *)
(* first outgoing edge whose condition is answered True for that node, a  *)
(* node where nothing is answered is left by its sequence edge whatever   *)
(* the answers, and the walk ends at a node only where no condition is    *)
(* answered True and no sequence edge leaves: an unanswered decision is   *)
(* the last node of the path.                                              *)
C13_DecisionPath ==
    /\ walk.path # <<>> => walk.path[1] = walk.start
    /\ \A i \in 1..(Len(walk.path) - 1) :
         LET n == walk.path[i]
         IN  /\ n \in DOMAIN v2net.nodes
             /\ v2net.nodes[n].node_type = "decision" =>
                    /\ Answered(n) # <<>>
                    /\ walk.path[i + 1] = v2net.edges[Head(Answered(n))].target_id
             /\ Answered(n) = <<>> =>
                    /\ Sequences(n) # <<>>
                    /\ walk.path[i + 1] = v2net.edges[Head(Sequences(n))].target_id
    /\ walk.state = "done" /\ walk.start # NoId =>
         /\ walk.path # <<>>
         /\ LET n == walk.path[Len(walk.path)]
            IN  n \in DOMAIN v2net.nodes => Answered(n) = <<>> /\ Sequences(n) = <<>>

(* a finished walk that left a decision node by an answered edge and a    *)
(* later node by a sequence edge whose condition nobody answered           *)
C13_Witness ==
    /\ walk.state = "done"
    /\ \E i, j \in 1..(Len(walk.path) - 1) :
         /\ i < j
         /\ v2net.nodes[walk.path[i]].node_type = "decision"
         /\ Answered(walk.path[j]) = <<>>
         /\ v2net.edges[Head(Sequences(walk.path[j]))].condition # None

(* the reference nodes of g whose text names the code c: "-> c" *)
PointersAt(g, c) ==
    {n \in DOMAIN g.nodes :
        g.nodes[n].node_type = "reference" /\ g.nodes[n].content = <<"->", c>>}

(* the edges of kind deep_link that the step adds from n to lr *)
NewDeepLinks(n, lr) ==
    {e \in DOMAIN net'.edges \ DOMAIN net.edges :
        /\ net'.edges[e].source_id = n
        /\ net'.edges[e].target_id = lr
        /\ net'.edges[e].edge_type = "deep_link"}

(* C14: in the step that merges the document of the code c, every         *)
(* reference node of the main network that points at c gets exactly one   *)
(* new deep_link edge to the new linked-procedure node of c.               *)
C14_DeepLinkEdges ==
    [][\A lr \in LinkedRoots(net') \ LinkedRoots(net) :
          \A n \in PointersAt(net, net'.nodes[lr].procedure_code) :
              Cardinality(NewDeepLinks(n, lr)) = 1]_vars

(* _resolve is about to merge the document of Top.pc *)
Merging ==
    /\ Entering /\ ~DepthExceeded(Top.d, max_d)
    /\ _find(Top.pc) # None /\ ~ExtractRaises(_find(Top.pc))

(* the network _resolve builds from the file of pc *)
SubOf(pc) == build(parse(_extract(_find(pc)), hashOrd), _extract(_find(pc)).title)

(* the deep_link edges a step adds *)
NewLinks ==
    {e \in DOMAIN net'.edges \ DOMAIN net.edges : net'.edges[e].edge_type = "deep_link"}

(* C15: the step that merges sub keeps every node and edge of the main    *)
(* network as it was; the node k of sub is copied under the fresh id      *)
(* nc + k with its kind and content, but for the root of sub, which is    *)
(* the one new linked_procedure node tagged with the code; and every edge *)
(* of sub is copied under a fresh id with both ends mapped the same way   *)
(* and its kind and condition kept.                                        *)
C15_MergeCopies ==
    [][Merging =>
         LET sub == SubOf(Top.pc)
         IN  /\ \A n \in DOMAIN net.nodes : net'.nodes[n] = net.nodes[n]
             /\ \A e \in DOMAIN net.edges : net'.edges[e] = net.edges[e]
             /\ DOMAIN net'.nodes \ DOMAIN net.nodes
                    = {net.nc + o : o \in DOMAIN sub.nodes}
             /\ DOMAIN net.nodes \cap {net.nc + o : o \in DOMAIN sub.nodes} = {}
             /\ \A o \in DOMAIN sub.nodes :
                    IF sub.nodes[o].node_type = "root"
                    THEN /\ o = 1
                         /\ net'.nodes[net.nc + o].node_type = "linked_procedure"
                         /\ net'.nodes[net.nc + o].procedure_code = Top.pc
                    ELSE /\ net'.nodes[net.nc + o].node_type = sub.nodes[o].node_type
                         /\ net'.nodes[net.nc + o].content = sub.nodes[o].content
             /\ LinkedRoots(net') \ LinkedRoots(net) = {net.nc + 1}
             /\ DOMAIN net'.edges \ (DOMAIN net.edges \cup NewLinks)
                    = {net.ec + Cardinality(NewLinks) + k : k \in DOMAIN sub.edges}
             /\ \A k \in DOMAIN sub.edges :
                    LET e == net'.edges[net.ec + Cardinality(NewLinks) + k]
                    IN  /\ e.source_id = net.nc + sub.edges[k].source_id
                        /\ e.target_id = net.nc + sub.edges[k].target_id
                        /\ e.edge_type = sub.edges[k].edge_type
                        /\ e.condition = sub.edges[k].condition]_vars

(* a second document has been merged behind the copy of the first: its    *)
(* copied nodes and edges lie behind a linked_procedure node that is not  *)
(* the first one                                                           *)
C15_Witness ==
    \E l1, l2 \in LinkedRoots(net) :
        /\ l1 < l2
        /\ \E e \in DOMAIN net.edges :
              /\ net.edges[e].source_id > l2
              /\ net.edges[e].edge_type = "sequence"

(* claim_type_roots as build leaves it for the main document *)
NativeRoots == build(parse(mainDoc, hashOrd), mainDoc.title).claim_type_roots

(* C16: at any time after the build, a key of claim_type_roots without    *)
(* '/' is a category of the main document; every category of the main    *)
(* document still maps to the node the build gave it, whatever was merged *)
(* since; and every category of a merged document is found under          *)
(* code/name, at a copied claim_type node of that name tagged with the    *)
(* code.                                                                   *)
C16_Namespacing ==
    phase # "new" =>
        /\ \A k \in DOMAIN net.claim_type_roots : Len(k) = 1 => k \in DOMAIN NativeRoots
        /\ \A k \in DOMAIN NativeRoots :
              k \in DOMAIN net.claim_type_roots /\ net.claim_type_roots[k] = NativeRoots[k]
        /\ \A c \in DOMAIN net.linked_procedures :
              \A cn \in DOMAIN SubOf(c).claim_type_roots :
                  /\ <<c>> \o cn \in DOMAIN net.claim_type_roots
                  /\ LET n == net.nodes[net.claim_type_roots[<<c>> \o cn]]
                     IN  /\ n.node_type = "claim_type"
                         /\ n.content = cn
                         /\ n.procedure_code = c

(* C17: a call resolve_all(net, max_d) with max_d >= 1 leaves none of the *)
(* references pending that were pending when it was called: a call that   *)
(* returns at once had none, and a call that ran its loop has taken every *)
(* code of its list  pending  out of the status pending.                   *)
C17_AllAttempted ==
    /\ [][(phase # "resolving" /\ phase' = "returned" /\ max_d' >= 1) =>
             \A c \in RefCodes(net') : StatusOf(net, c) # "pending"]_vars
    /\ [](phase = "returned" /\ max_d >= 1 =>
             \A c \in Range(pending) : StatusOf(net, c) # "pending")

(* C17 amended: with a procedures folder, a call resolve_all(net, max_d)  *)
(* with max_d >= 1 leaves none of the references pending that were        *)
(* pending when it was called; without a procedures folder the call       *)
(* returns at once and leaves the network as it is.                        *)
C17_AllAttemptedWithFolder ==
    /\ [][(pdir /\ phase # "resolving" /\ phase' = "returned" /\ max_d' >= 1) =>
             \A c \in RefCodes(net') : StatusOf(net, c) # "pending"]_vars
    /\ [](pdir /\ phase = "returned" /\ max_d >= 1 =>
             \A c \in Range(pending) : StatusOf(net, c) # "pending")
    /\ [][(~pdir /\ phase # "resolving" /\ phase' = "returned") => net' = net]_vars

(* a pass over its pending codes has returned, and a code found in a      *)
(* merged document, not in the list of the pass, is pending               *)
C17_Witness ==
    /\ pdir /\ phase = "returned" /\ max_d >= 1
    /\ Len(pending) >= 1
    /\ \E c \in RefCodes(net) \ Range(pending) : StatusOf(net, c) = "pending"

(* C18: between the steps of the resolver, the keys of linked_procedures  *)
(* are the codes whose status is resolved, and each key maps to a node of *)
(* the network of kind linked_procedure tagged with that code.             *)
C18_LinkedProcedures ==
    /\ DOMAIN net.linked_procedures
           = {c \in RefCodes(net) : StatusOf(net, c) = "resolved"}
    /\ \A c \in DOMAIN net.linked_procedures :
           /\ net.linked_procedures[c] \in DOMAIN net.nodes
           /\ net.nodes[net.linked_procedures[c]].node_type = "linked_procedure"
           /\ net.nodes[net.linked_procedures[c]].procedure_code = c

(* one code is merged and registered, another known code ended in error *)
C18_Witness ==
    /\ DOMAIN net.linked_procedures # {}
    /\ RefCodes(net) \ DOMAIN net.linked_procedures # {}
    /\ \E c \in RefCodes(net) : StatusOf(net, c) = "error"

(* C19: the loop that follows a merge runs over every code of the merged  *)
(* document; a code the main network does not know is registered with the *)
(* status pending and _resolve is called for it one level deeper; the     *)
(* loop runs, and every deeper call is made, only while the status of the *)
(* merged code is resolved; and when the loop is done every code of the   *)
(* merged document is known.                                               *)
C19_DiscoverAndRecurse ==
    /\ [][/\ Merging =>
               /\ StatusOf(net', Top.pc) = "resolved"
               /\ Len(stack') = Len(stack)
               /\ stack'[Len(stack')].stage = "loop"
               /\ Range(stack'[Len(stack')].todo) = RefCodes(SubOf(Top.pc))
          /\ (phase = "resolving" /\ stack # <<>> /\ Top.stage = "loop"
                 /\ Top.todo # <<>> /\ Head(Top.todo) \notin RefCodes(net)) =>
               /\ Head(Top.todo) \in RefCodes(net')
               /\ StatusOf(net', Head(Top.todo)) = "pending"
               /\ stack'[Len(stack')] = Frame(Head(Top.todo), Top.d + 1)
               /\ Len(stack') = Len(stack) + 1
          /\ (phase = "resolving" /\ stack # <<>> /\ Top.stage = "loop"
                 /\ Top.todo = <<>>) =>
               RefCodes(SubOf(Top.pc)) \subseteq RefCodes(net)]_vars
    /\ [](\A i \in DOMAIN stack :
             /\ stack[i].stage = "loop" => StatusOf(net, stack[i].pc) = "resolved"
             /\ i > 1 => /\ stack[i - 1].stage = "loop"
                         /\ stack[i].d = stack[i - 1].d + 1)

(* _resolve runs one level down for a code that the main document does    *)
(* not name: it was found in the merged document of the caller             *)
C19_Witness ==
    /\ Len(stack) = 2
    /\ stack[2].pc \notin Range(LineCodes(mainDoc.lines))
    /\ StatusOf(net, stack[2].pc) = "pending"
    /\ StatusOf(net, stack[1].pc) = "resolved"

StepKinds == {"step", "decision"}
BranchKinds == {"branch_yes", "branch_no", "branch_unsure", "sub_condition"}

ClaimTypeNodes(g) == {n \in DOMAIN g.nodes : g.nodes[n].node_type = "claim_type"}

(* the step nodes  steps  of the category node ct, taken in the order of  *)
(* their ids, are threaded: the first is linked from ct, each later one   *)
(* by a sequence edge from the step node before it, and no edge runs from *)
(* a branch node to a step node                                            *)
Threaded(g, ct, steps) ==
    \A n \in steps :
        LET before == {m \in steps : m < n}
            prev   == IF before = {} THEN ct
                      ELSE CHOOSE m \in before : \A k \in before : k <= m
        IN  /\ \E e \in DOMAIN g.edges :
                  /\ g.edges[e].source_id = prev
                  /\ g.edges[e].target_id = n
                  /\ before # {} => g.edges[e].edge_type = "sequence"
            /\ \A e \in DOMAIN g.edges :
                  g.edges[e].target_id = n =>
                      g.nodes[g.edges[e].source_id].node_type \notin BranchKinds

(* C20: in the network either builder makes, the steps of every category  *)
(* are threaded in their order: the first step node is linked from the    *)
(* category node, every later one by a sequence edge from the step node   *)
(* before it (the decision node when that step is a decision), and a      *)
(* branch node is never the source of an edge to a step.                   *)
C20_StepThreading ==
    /\ phase = "built" =>
           \A ct \in ClaimTypeNodes(net) :
               Threaded(net, ct, {n \in DOMAIN net.nodes :
                                     /\ net.nodes[n].node_type \in StepKinds
                                     /\ net.nodes[n].section = net.nodes[ct].section})
    /\ v2net.root_id # NoId =>
           \A ct \in ClaimTypeNodes(v2net) :
               Threaded(v2net, ct, {n \in DOMAIN v2net.nodes :
                                       /\ v2net.nodes[n].node_type \in StepKinds
                                       /\ v2net.nodes[n].parent_id = ct})

(* the nodes that hang below the node n: reached from n without passing   *)
(* along a sequence edge                                                   *)
RECURSIVE Below(_, _)
Below(g, from) ==
    LET more == {g.edges[e].target_id :
                    e \in {x \in DOMAIN g.edges :
                              /\ g.edges[x].source_id \in from
                              /\ g.edges[x].edge_type # "sequence"}}
    IN  IF more \subseteq from THEN from ELSE Below(g, from \cup more)

(* the node the build makes for the step  step  of the section  sec *)
StepNodes(g, sec, step) ==
    {n \in DOMAIN g.nodes :
        /\ g.nodes[n].node_type \in StepKinds
        /\ g.nodes[n].section = sec.name
        /\ g.nodes[n].step_number = step.number
        /\ g.nodes[n].content = step.content}

(* C21: after the build, every code in the text of a step has a reference *)
(* node "-> code" that is entered by a reference edge and hangs below the *)
(* node of the step (as its child or as a child of one of its branches or *)
(* sub-conditions), and the code has a ProcedureReference with the status *)
(* pending.                                                                *)
C21_ReferencePointers ==
    phase = "built" =>
        \A i \in DOMAIN parse(mainDoc, hashOrd).sections :
            LET sec == parse(mainDoc, hashOrd).sections[i]
            IN  \A j \in DOMAIN sec.steps :
                    \A c \in Range(sec.steps[j].procedure_refs) :
                        /\ c \in RefCodes(net) /\ StatusOf(net, c) = "pending"
                        /\ \E n \in StepNodes(net, sec, sec.steps[j]) :
                               \E r \in PointersAt(net, c) \cap Below(net, {n}) :
                                   \E e \in DOMAIN net.edges :
                                       /\ net.edges[e].target_id = r
                                       /\ net.edges[e].edge_type = "reference"
                                       /\ net.edges[e].source_id \in Below(net, {n})


(* the heading lines of t that can name a category, and among them the    *)
(* first line of every name, compared in lower case                        *)
Headings(t) == {i \in DOMAIN t : t[i].k = "head" /\ StrLen(Lower(t[i].name)) > 3}

FirstOccurrences(t) ==
    {i \in Headings(t) :
        \A j \in Headings(t) : j < i => Lower(t[j].name) # Lower(t[i].name)}

(* C22: the sections the parser returns are the first occurrences of the  *)
(* category names, in the order of the text, each running up to the next  *)
(* first occurrence; and the built network has one root, one claim_type   *)
(* node for every key of claim_type_roots, in the order of the sections,  *)
(* each entered by a contains edge from the root.                          *)
C22_Categories ==
    phase = "built" =>
        LET t     == mainDoc.lines
            first == SelectSeq([i \in DOMAIN t |-> i],
                               LAMBDA i : i \in FirstOccurrences(t))
            secs  == parse(mainDoc, hashOrd).sections
        IN  /\ Len(secs) = Len(first)
            /\ \A k \in DOMAIN secs :
                   /\ secs[k].name = t[first[k]].name
                   /\ secs[k].steps =
                          _steps(SubSeq(t, first[k],
                                        SpanEnd(t, FirstOccurrences(t), first[k])),
                                 hashOrd)
            /\ Cardinality({n \in DOMAIN net.nodes : net.nodes[n].node_type = "root"}) = 1
            /\ Cardinality(ClaimTypeNodes(net)) = Cardinality(DOMAIN net.claim_type_roots)
            /\ Cardinality(ClaimTypeNodes(net)) = Len(secs)
            /\ \A k \in DOMAIN secs :
                   /\ secs[k].name \in DOMAIN net.claim_type_roots
                   /\ LET ct == net.claim_type_roots[secs[k].name]
                      IN  /\ net.nodes[ct].node_type = "claim_type"
                          /\ net.nodes[ct].content = secs[k].name
                          /\ \E e \in DOMAIN net.edges :
                                 /\ net.edges[e].source_id = 1
                                 /\ net.edges[e].target_id = ct
                                 /\ net.edges[e].edge_type = "contains"
                          /\ \A j \in DOMAIN secs :
                                 j < k => net.claim_type_roots[secs[j].name] < ct


BranchEdgeKinds == {"condition_yes", "condition_no", "condition_unsure"}

(* n is a decision node that no branch edge leaves *)
DeadEnd(g, n) ==
    /\ g.nodes[n].node_type = "decision"
    /\ \A e \in DOMAIN g.edges :
           g.edges[e].source_id = n => g.edges[e].edge_type \notin BranchEdgeKinds

(* the step node that follows n among the step nodes  steps  of its       *)
(* category, if there is one, is entered by an edge from n                 *)
LinkedOn(g, n, steps) ==
    LET after == {m \in steps : m > n}
    IN  after # {} =>
            \E e \in DOMAIN g.edges :
                /\ g.edges[e].source_id = n
                /\ g.edges[e].target_id = CHOOSE m \in after : \A k \in after : m <= k

(* C23: for a decision step without branches either builder makes a       *)
(* decision node; no branch edge leaves the node, and the step that       *)
(* follows it in the category is linked from it.                           *)
C23_BareDecision ==
    /\ phase = "built" =>
           \A i \in DOMAIN parse(mainDoc, hashOrd).sections :
               LET sec == parse(mainDoc, hashOrd).sections[i]
               IN  \A j \in DOMAIN sec.steps :
                       (sec.steps[j].is_decision /\ sec.steps[j].branches = <<>>) =>
                           \E n \in StepNodes(net, sec, sec.steps[j]) :
                               /\ DeadEnd(net, n)
                               /\ LinkedOn(net, n,
                                           {m \in DOMAIN net.nodes :
                                               /\ net.nodes[m].node_type \in StepKinds
                                               /\ net.nodes[m].section = sec.name})
    /\ v2net.root_id # NoId =>
           \A k \in DOMAIN v2data.claim_types :
               \A j \in DOMAIN v2data.claim_types[k].steps :
                   LET step == v2data.claim_types[k].steps[j]
                   IN  (step.is_decision /\ step.branches = <<>>) =>
                           \E n \in DOMAIN v2net.nodes :
                               /\ v2net.nodes[n].content = step.question
                               /\ v2net.nodes[n].step_number = step.step_number
                               /\ v2net.nodes[n].section = v2data.claim_types[k].name
                               /\ DeadEnd(v2net, n)
                               /\ LinkedOn(v2net, n,
                                           {m \in DOMAIN v2net.nodes :
                                               /\ v2net.nodes[m].node_type \in StepKinds
                                               /\ v2net.nodes[m].parent_id
                                                      = v2net.nodes[n].parent_id})


(* the greatest number of edges on a path of g that starts at n and       *)
(* passes no node of seen and no node twice                                *)
RECURSIVE LongestPath(_, _, _)
LongestPath(g, n, seen) ==
    LET next == {g.edges[e].target_id :
                    e \in {x \in DOMAIN g.edges : g.edges[x].source_id = n}}
                \ (seen \cup {n})
        lens == {1 + LongestPath(g, m, seen \cup {n}) : m \in next}
    IN  IF next = {} THEN 0 ELSE CHOOSE l \in lens : \A k \in lens : k <= l

(* C24: the depth _compute_statistics reports for a claim type is the     *)
(* greatest number of edges on a path from the node of the claim type to  *)
(* a node reachable from it.                                               *)
C24_MaxDepth ==
    stats.computed =>
        \A ct \in DOMAIN v2net.claim_type_roots :
            stats.max_depths[ct] = LongestPath(v2net, v2net.claim_type_roots[ct], {})


(***************************************************************************)
(* SOPParserV2._extract_entities and _register_entity                      *)
(*                                                                         *)
(* A text is the sequence of the matches its patterns find, in text order: *)
(* pat is the pattern that matches and group is match.group(1) (for the    *)
(* provider names, the fragment of the text that holds the name). An       *)
(* entity id f"{prefix}{value}" is the pair <<prefix, value>>.             *)
(***************************************************************************)
Match(pat, group) == [pat |-> pat, group |-> group]

(* str.replace('-', ''), on the groups of the tin pattern *)
replace_dash(s) ==
    CASE s = "123-45-6789" -> "123456789"
      [] s = "123-456789" -> "123456789"
      [] OTHER -> s

(* str.upper(), on the groups of the IGNORECASE patterns pend_code, pca *)
upper(s) ==
    CASE s = "ab12" -> "AB12"
      [] s = "Ab12" -> "AB12"
      [] s = "p123" -> "P123"
      [] OTHER -> s

(* str.lower(), on the provider names and the fragments that hold them *)
lower(s) ==
    CASE s = "Vita Health" -> "vita health"
      [] s = "VITA HEALTH" -> "vita health"
      [] s = "Concentra" -> "concentra"
      [] OTHER -> s

(* msg.replace(' ', '_').replace('-', '_') *)
replace_space_dash(s) ==
    CASE s = "UB - HOLD" -> "UB___HOLD"
      [] s = "UB-HOLD" -> "UB_HOLD"
      [] OTHER -> s

(* provider.replace(' ', '_').lower() *)
replace_space_lower(s) ==
    CASE s = "Vita Health" -> "vita_health"
      [] s = "Concentra" -> "concentra"
      [] OTHER -> s

(* PATTERNS['provider_names'], the known list *)
provider_names == <<"Vita Health", "Concentra">>

(* the dataclass Entity: mentions defaults to the empty list *)
Entity(id, value, entity_type) ==
    [id |-> id, name |-> value, entity_type |-> entity_type, value |-> value,
     mentions |-> <<>>]

(* _register_entity: creates the record only if the id is not known *)
_register_entity(found, entity_id, value, entity_type) ==
    IF entity_id \in DOMAIN found
    THEN found
    ELSE Put(found, entity_id, Entity(entity_id, value, entity_type))

(* pattern.finditer(text): the groups of the pattern's matches, in order *)
RECURSIVE finditer(_, _)
finditer(pat, text) ==
    IF text = <<>> THEN <<>>
    ELSE IF Head(text).pat = pat
         THEN <<Head(text).group>> \o finditer(pat, Tail(text))
         ELSE finditer(pat, Tail(text))

(* the loop over the provider_id matches: registers, then appends the *)
(* mention {'section': section_name, 'step': step_num}                *)
RECURSIVE provider_id_loop(_, _, _, _)
provider_id_loop(found, groups, section_name, step_num) ==
    IF groups = <<>> THEN found
    ELSE LET pid == Head(groups)
             entity_id == <<"provider_", pid>>
             reg == _register_entity(found, entity_id, pid, "provider_id")
             app == [reg EXCEPT ![entity_id].mentions =
                         Append(@, [section |-> section_name, step |-> step_num])]
         IN  provider_id_loop(app, Tail(groups), section_name, step_num)

(* the loops over the matches of tin, npi, pend_code, pca, group_number *)
(* and ultra_blue: each only registers                                  *)
EntityOf(pat, group) ==
    CASE pat = "tin" ->
           [id |-> <<"tin_", replace_dash(group)>>, value |-> replace_dash(group),
            entity_type |-> "tin"]
      [] pat = "npi" ->
           [id |-> <<"npi_", group>>, value |-> group, entity_type |-> "npi"]
      [] pat = "pend_code" ->
           [id |-> <<"pend_", upper(group)>>, value |-> upper(group),
            entity_type |-> "pend_code"]
      [] pat = "pca" ->
           [id |-> <<"pca_", upper(group)>>, value |-> upper(group),
            entity_type |-> "pca_code"]
      [] pat = "group_number" ->
           [id |-> <<"group_", group>>, value |-> group,
            entity_type |-> "group_number"]
      [] pat = "ultra_blue" ->
           [id |-> <<"ub_", replace_space_dash(group)>>, value |-> group,
            entity_type |-> "ultra_blue_message"]

RECURSIVE register_loop(_, _, _)
register_loop(found, pat, groups) ==
    IF groups = <<>> THEN found
    ELSE LET e == EntityOf(pat, Head(groups))
         IN  register_loop(_register_entity(found, e.id, e.value, e.entity_type),
                           pat, Tail(groups))

(* the loop over the known provider names: provider.lower() in text.lower() *)
RECURSIVE provider_names_loop(_, _, _)
provider_names_loop(found, providers, text) ==
    IF providers = <<>> THEN found
    ELSE LET provider == Head(providers)
             hit == \E g \in Range(finditer("provider_names", text)) :
                        lower(g) = lower(provider)
             reg == IF hit
                    THEN _register_entity(found,
                             <<"provider_name_", replace_space_lower(provider)>>,
                             provider, "provider_name")
                    ELSE found
         IN  provider_names_loop(reg, Tail(providers), text)

RegisteringPatterns == <<"tin", "npi", "pend_code", "pca", "group_number", "ultra_blue">>

RECURSIVE register_loops(_, _, _)
register_loops(found, pats, text) ==
    IF pats = <<>> THEN found
    ELSE register_loops(register_loop(found, Head(pats), finditer(Head(pats), text)),
                        Tail(pats), text)

(* _extract_entities(text, section_name, step_num), as it leaves *)
(* entities_found                                                *)
_extract_entities(found, text, section_name, step_num) ==
    LET f1 == provider_id_loop(found, finditer("provider_id", text),
                               section_name, step_num)
        f2 == register_loops(f1, RegisteringPatterns, text)
    IN  provider_names_loop(f2, provider_names, text)

(* The texts of a section's steps and branches that the parse hands to  *)
(* _extract_entities                                                    *)
EntityTexts ==
    { <<>>,
      <<Match("provider_id", "A12BC3D45EF")>>,
      <<Match("provider_id", "A12BC3D45EF"), Match("provider_id", "A12BC3D45EF")>>,
      <<Match("tin", "123-45-6789")>>,
      <<Match("tin", "123-45-6789"), Match("tin", "123456789")>>,
      <<Match("pend_code", "ab12"), Match("pend_code", "AB12")>>,
      <<Match("provider_id", "A12BC3D45EF"), Match("npi", "1234567890"),
        Match("pca", "p123")>>,
      <<Match("group_number", "1234567"), Match("ultra_blue", "UB - HOLD"),
        Match("provider_names", "VITA HEALTH")>>,
      <<Match("provider_names", "Vita Health"), Match("provider_names", "Concentra")>> }

Call(text, step_num) ==
    [text |-> text, section_name |-> "AMAZON CLAIMS", step_num |-> step_num]

EntityCalls == { Call(t, n) : t \in EntityTexts, n \in {1, 2} }

(* parse(): a parser whose document has a step content and a branch *)
(* content still to be handed to _extract_entities                  *)
InitEntities ==
    /\ mainDoc = DocLeaf
    /\ pdir = FALSE
    /\ folder = [c \in Codes |-> NoFile]
    /\ hashOrd = CHOOSE p \in Perms(Codes) : TRUE
    /\ net = WorldNetwork("")
    /\ phase = "new"
    /\ max_d = 0
    /\ pending = <<>>
    /\ idx = 1
    /\ stack = <<>>
    /\ v2data = <<>>
    /\ v2builder = WorldNetworkBuilderV2
    /\ v2net = WorldNetworkV2("")
    /\ query = NoQuery
    /\ walk = NoWalk
    /\ stats = NoStats
    /\ \E c1, c2 \in EntityCalls : v2parser = SOPParserV2(<<c1, c2>>)
    /\ crawl = NoCrawl

(* one call _extract_entities(text, section_name, step_num) *)
ExtractEntities ==
    /\ v2parser.calls # <<>>
    /\ LET call == Head(v2parser.calls)
       IN  v2parser' = [entities_found |->
                            _extract_entities(v2parser.entities_found, call.text,
                                              call.section_name, call.step_num),
                        calls |-> Tail(v2parser.calls),
                        call |-> call]
    /\ UNCHANGED <<v3vars, v2data, v2builder, v2net, query, walk, stats, crawl>>

NextEntities == ExtractEntities

SpecEntities == InitEntities /\ [][NextEntities]_vars


(* the entity id that a match of the text is registered under *)
MatchId(m) ==
    CASE m.pat = "provider_id" -> <<"provider_", m.group>>
      [] m.pat = "provider_names" ->
           <<"provider_name_",
             replace_space_lower(CHOOSE p \in Range(provider_names) :
                                     lower(p) = lower(m.group))>>
      [] OTHER -> EntityOf(m.pat, m.group).id

(* the matches of a text that are repeated: the id is already registered *)
(* before the call, or an earlier match of the text has the same id      *)
Repeated(found, text, id) ==
    {i \in DOMAIN text :
        /\ MatchId(text[i]) = id
        /\ \/ id \in DOMAIN found
           \/ \E j \in 1..(i - 1) : MatchId(text[j]) = id}

(* C25: in every call of _extract_entities, every match of the text is    *)
(* registered under the one Entity record of its (class, normalized       *)
(* value) id; every repeated match appends a mention with the call's      *)
(* section and step number to that record; no entity is removed or        *)
(* replaced.                                                               *)
C25_EntityMentions ==
    [][ LET old == v2parser.entities_found
            new == v2parser'.entities_found
            call == v2parser'.call
            mention == [section |-> call.section_name, step |-> call.step_num]
        IN  /\ \A id \in DOMAIN old :
                  /\ id \in DOMAIN new
                  /\ new[id].id = old[id].id
                  /\ new[id].entity_type = old[id].entity_type
                  /\ new[id].value = old[id].value
            /\ \A i \in DOMAIN call.text :
                  /\ MatchId(call.text[i]) \in DOMAIN new
                  /\ new[MatchId(call.text[i])].id = MatchId(call.text[i])
            /\ \A id \in DOMAIN new :
                  LET before == IF id \in DOMAIN old THEN old[id].mentions ELSE <<>>
                      after == new[id].mentions
                  IN  /\ Len(after) >= Len(before)
                              + Cardinality(Repeated(old, call.text, id))
                      /\ SubSeq(after, 1, Len(before)) = before
                      /\ \A k \in (Len(before) + 1)..Len(after) : after[k] = mention
      ]_v2parser


(* C26: when resolve_all has returned, every reference node of the main   *)
(* network, copied ones included, that points at a code whose status is   *)
(* resolved has a deep_link edge to the linked-procedure node registered  *)
(* for that code.                                                          *)
C26_PointersLinked ==
    phase = "returned" =>
        \A c \in RefCodes(net) :
            StatusOf(net, c) = "resolved" =>
                \A n \in PointersAt(net, c) :
                    \E e \in DOMAIN net.edges :
                        /\ net.edges[e].edge_type = "deep_link"
                        /\ net.edges[e].source_id = n
                        /\ net.edges[e].target_id = net.linked_procedures[c]


(* _resolve is about to end in not_found or in error *)
Failing ==
    /\ Entering /\ ~DepthExceeded(Top.d, max_d)
    /\ \/ _find(Top.pc) = None
       \/ ExtractRaises(_find(Top.pc))

(* C27: the step of _resolve that ends in not_found or error keeps the    *)
(* nodes, the edges, claim_type_roots and linked_procedures of the main   *)
(* network; it changes only the status and the error message of the       *)
(* reference it was called for.                                            *)
C27_FailedAttemptFrame ==
    [][Failing =>
         /\ net'.nodes = net.nodes
         /\ net'.edges = net.edges
         /\ net'.claim_type_roots = net.claim_type_roots
         /\ net'.linked_procedures = net.linked_procedures
         /\ net' = [net EXCEPT !.procedure_refs = net'.procedure_refs]
         /\ OthersKeep(Top.pc)
         /\ StatusOf(net', Top.pc) \in {"not_found", "error"}
         /\ net'.procedure_refs[RefIndex(net', Top.pc)].procedure_code = Top.pc]_vars

(* a code was merged and a later code of the same pass ended in not_found *)
(* or error                                                                *)
C27_Witness ==
    /\ DOMAIN net.linked_procedures # {}
    /\ \E c1, c2 \in Range(pending) :
          /\ Before(c1, c2)
          /\ StatusOf(net, c1) = "resolved"
          /\ StatusOf(net, c2) \in {"not_found", "error"}


(* the targets of the edges of g that leave n *)
Successors(g, n) ==
    {g.edges[e].target_id : e \in {x \in DOMAIN g.edges : g.edges[x].source_id = n}}

(* C28: after the build and after every merge, every edge of the network  *)
(* runs from a node with a smaller id number to a node with a larger one, *)
(* no node lies on a cycle, and the network holds as many nodes as its    *)
(* node counter says, under the ids 1 to the counter.                     *)
C28_EdgesRunForward ==
    /\ \A e \in DOMAIN net.edges : net.edges[e].source_id < net.edges[e].target_id
    /\ \A n \in DOMAIN net.nodes : n \notin Reach(net, Successors(net, n))
    /\ Cardinality(DOMAIN net.nodes) = net.nc
    /\ DOMAIN net.nodes = 1..net.nc

(* two documents were merged one after the other and pointers were linked *)
C28_Witness ==
    /\ phase = "returned"
    /\ Cardinality(LinkedRoots(net)) >= 2
    /\ \E e \in DOMAIN net.edges : net.edges[e].edge_type = "deep_link"


(* the edges of g that arrive at n *)
Incoming(g, n) == {e \in DOMAIN g.edges : g.edges[e].target_id = n}

(* C29: the network that build returns, before any resolution, is a tree  *)
(* below the root node: the root is node 1 and has no incoming edge,      *)
(* every other node has exactly one incoming edge and is reached from the *)
(* root, and there is one edge fewer than nodes.                          *)
C29_BuiltTree ==
    phase = "built" =>
        /\ net.nodes[1].node_type = "root"
        /\ Incoming(net, 1) = {}
        /\ \A n \in DOMAIN net.nodes \ {1} : Cardinality(Incoming(net, n)) = 1
        /\ DOMAIN net.nodes \subseteq Reach(net, {1})
        /\ Cardinality(DOMAIN net.edges) = Cardinality(DOMAIN net.nodes) - 1


(* a built network with a decision, a branch below it and a reference node *)
C29_Witness ==
    /\ phase = "built"
    /\ \E n \in DOMAIN net.nodes : net.nodes[n].node_type = "decision"
    /\ \E n \in DOMAIN net.nodes : net.nodes[n].node_type = "reference"
    /\ \E e \in DOMAIN net.edges :
          /\ net.edges[e].edge_type = "sequence"
          /\ net.nodes[net.edges[e].source_id].node_type # "claim_type"


(***************************************************************************)
(* ssl_fixed_extractor_v1.py: PremeraPROPCLExtractor.extract_all and       *)
(* fetch_url                                                               *)
(*                                                                         *)
(* pdf is the list of the links of the PDF and site the pages of the       *)
(* portal, each the list of the hrefs of its <a> tags; both are fixed      *)
(* during a crawl. gets is the history of the calls driver.get(url).       *)
(***************************************************************************)
U1 == "https://premera.zavanta.com/PR.OP.CL.001"
U2 == "https://premera.zavanta.com/PR.OP.CL.002"
U3 == "https://premera.zavanta.com/PR.OP.CL.003"
U2Top == "https://premera.zavanta.com/PR.OP.CL.002#top"
External == "https://x.sharepoint.com/PR.OP.CL.009"
OtherDoc == "https://premera.zavanta.com/HR.001"

(* is_allowed_url: no skip domain and an allowed domain in the netloc *)
is_allowed_url(url) == url \in {U1, U2, U3, U2Top, OtherDoc}

(* is_prop_cl_link: PR.OP.CL in the url *)
is_prop_cl_link(url) == url \in {U1, U2, U3, U2Top, External}

(* get_child_links: scheme://netloc/path?query of urljoin(base_url, href), *)
(* which drops the fragment                                                *)
clean_url(href) == IF href = U2Top THEN U2 ELSE href

(* get_child_links(base_url, page_source) on the hrefs of the page *)
RECURSIVE get_child_links(_, _, _)
get_child_links(hrefs, seen, visited_urls) ==
    IF hrefs = <<>> THEN <<>>
    ELSE LET c == clean_url(Head(hrefs))
         IN  IF \/ ~is_allowed_url(c) \/ ~is_prop_cl_link(c)
                \/ c \in seen \/ c \in visited_urls
             THEN get_child_links(Tail(hrefs), seen, visited_urls)
             ELSE <<c>> \o get_child_links(Tail(hrefs), seen \cup {c}, visited_urls)

(* the portals: for each page the hrefs it holds *)
Sites ==
    { [u \in {U1, U2, U3} |->
          CASE u = U1 -> <<U2>> [] u = U2 -> <<U1, U3>> [] OTHER -> <<U1>>],
      [u \in {U1, U2, U3} |->
          CASE u = U1 -> <<U2, U3, U2Top, External>> [] u = U2 -> <<U3>>
            [] OTHER -> <<>>],
      [u \in {U1, U2, U3} |->
          CASE u = U1 -> <<U1, U2>> [] u = U2 -> <<U3, OtherDoc>>
            [] OTHER -> <<U2>>] }

(* the links of the PDF, each url once *)
Pdfs == { <<U1>>, <<U1, U2>>, <<External, U2, OtherDoc, U1>> }

(* __init__ *)
PremeraPROPCLExtractor(pdf, site) ==
    [phase |-> "new", pdf |-> pdf, site |-> site, max_depth |-> 0,
     queue |-> <<>>, item |-> [url |-> "", depth |-> 0],
     visited_urls |-> {}, all_content |-> <<>>, total_extracted |-> 0,
     failed_urls |-> <<>>, skipped_urls |-> <<>>, filtered_urls |-> <<>>,
     requests_count |-> 0, losses |-> 0, gets |-> <<>>]

max_requests_before_restart == 50

(* extract_pdf_content: the links kept, skipped and filtered *)
prop_cl_links(pdf) ==
    SelectSeq(pdf, LAMBDA u : is_allowed_url(u) /\ is_prop_cl_link(u))

external_links(pdf) == SelectSeq(pdf, LAMBDA u : ~is_allowed_url(u))

other_zavanta_links(pdf) ==
    SelectSeq(pdf, LAMBDA u : is_allowed_url(u) /\ ~is_prop_cl_link(u))

QueueItem(url, depth) == [url |-> url, depth |-> depth]

(* if depth > max_depth: continue, with the test one level late *)
TooDeep_late(depth, max_depth) == depth > max_depth + 1

(* if depth > max_depth: continue *)
TooDeep(depth, max_depth) == depth > max_depth

InitCrawl ==
    /\ mainDoc = DocLeaf
    /\ pdir = FALSE
    /\ folder = [c \in Codes |-> NoFile]
    /\ hashOrd = CHOOSE p \in Perms(Codes) : TRUE
    /\ net = WorldNetwork("")
    /\ phase = "new"
    /\ max_d = 0
    /\ pending = <<>>
    /\ idx = 1
    /\ stack = <<>>
    /\ v2data = <<>>
    /\ v2builder = WorldNetworkBuilderV2
    /\ v2net = WorldNetworkV2("")
    /\ query = NoQuery
    /\ walk = NoWalk
    /\ stats = NoStats
    /\ v2parser = SOPParserV2(<<>>)
    /\ \E pdf \in Pdfs, site \in Sites : crawl = PremeraPROPCLExtractor(pdf, site)

CrawlFrame == UNCHANGED <<v3vars, v2data, v2builder, v2net, query, walk, stats, v2parser>>

(* extract_all(max_depth) up to its while loop *)
ExtractAll(max_depth) ==
    /\ crawl.phase = "new"
    /\ crawl' = [crawl EXCEPT
                   !.phase = "loop",
                   !.max_depth = max_depth,
                   !.skipped_urls = @ \o external_links(crawl.pdf),
                   !.filtered_urls = @ \o other_zavanta_links(crawl.pdf),
                   !.queue = [i \in DOMAIN prop_cl_links(crawl.pdf) |->
                                  QueueItem(prop_cl_links(crawl.pdf)[i], 0)]]
    /\ CrawlFrame

(* one turn of the while loop up to the call of fetch_url *)
CrawlNext ==
    /\ crawl.phase = "loop" /\ crawl.queue # <<>>
    /\ LET item == Head(crawl.queue)
       IN  IF TooDeep(item.depth, crawl.max_depth) \/ item.url \in crawl.visited_urls
           THEN crawl' = [crawl EXCEPT !.queue = Tail(@)]
           ELSE crawl' = [crawl EXCEPT !.queue = Tail(@), !.item = item,
                                       !.phase = "enter"]
    /\ CrawlFrame

(* the while loop ends: return self.all_content *)
CrawlDone ==
    /\ crawl.phase = "loop" /\ crawl.queue = <<>>
    /\ crawl' = [crawl EXCEPT !.phase = "done"]
    /\ CrawlFrame

(* fetch_url up to driver.get: alive is what is_browser_alive finds and *)
(* restart_ok what restart_browser returns if it is called              *)
FetchEnter(alive, restart_ok) ==
    /\ crawl.phase = "enter"
    /\ LET url == crawl.item.url
           rc == crawl.requests_count + 1
           restarts == rc >= max_requests_before_restart \/ ~alive
       IN  crawl' =
             IF url \in crawl.visited_urls
             THEN [crawl EXCEPT !.phase = "loop"]
             ELSE IF ~is_allowed_url(url)
             THEN [crawl EXCEPT !.phase = "loop", !.skipped_urls = Append(@, url)]
             ELSE IF restarts /\ ~restart_ok
             THEN [crawl EXCEPT !.phase = "loop",
                                !.visited_urls = @ \cup {url},
                                !.requests_count = rc]
             ELSE [crawl EXCEPT !.phase = "get",
                                !.visited_urls = @ \cup {url},
                                !.requests_count = IF restarts THEN 0 ELSE rc,
                                !.total_extracted = @ + 1]
    /\ CrawlFrame

(* the page loads: fetch_url returns the result, extract_all stores it *)
(* and queues the children                                              *)
FetchSuccess ==
    /\ crawl.phase = "get"
    /\ LET url == crawl.item.url
           depth == crawl.item.depth
           doc_num == crawl.total_extracted
           child_links == get_child_links(crawl.site[url], {}, crawl.visited_urls)
           result == [doc_number |-> doc_num, url |-> url, depth |-> depth,
                      child_links |-> child_links]
           new_children == SelectSeq(child_links,
                                     LAMBDA c : c \notin crawl.visited_urls)
       IN  crawl' = [crawl EXCEPT
                       !.phase = "loop",
                       !.all_content = Put(@, doc_num, result),
                       !.queue = @ \o [i \in DOMAIN new_children |->
                                           QueueItem(new_children[i], depth + 1)],
                       !.gets = Append(@, [url |-> url, depth |-> depth,
                                           outcome |-> "success"])]
    /\ CrawlFrame

(* driver.get raises InvalidSessionIdException, or a WebDriverException *)
(* with 'invalid session' in its message                                *)
FetchSessionLost(restart_ok) ==
    /\ crawl.phase = "get"
    /\ crawl.losses < MaxSessionLosses
    /\ LET url == crawl.item.url
           got == [url |-> url, depth |-> crawl.item.depth,
                   outcome |-> "session_lost"]
       IN  crawl' =
             IF restart_ok
             THEN [crawl EXCEPT !.phase = "enter",
                                !.visited_urls = @ \ {url},
                                !.total_extracted = @ - 1,
                                !.requests_count = 0,
                                !.losses = @ + 1,
                                !.gets = Append(@, got)]
             ELSE [crawl EXCEPT !.phase = "loop",
                                !.failed_urls = Append(@, url),
                                !.losses = @ + 1,
                                !.gets = Append(@, got)]
    /\ CrawlFrame

(* any other exception of the try block *)
FetchError ==
    /\ crawl.phase = "get"
    /\ crawl' = [crawl EXCEPT
                   !.phase = "loop",
                   !.failed_urls = Append(@, crawl.item.url),
                   !.gets = Append(@, [url |-> crawl.item.url,
                                       depth |-> crawl.item.depth,
                                       outcome |-> "error"])]
    /\ CrawlFrame

NextCrawl ==
    \/ \E m \in 0..MaxCrawlDepth : ExtractAll(m)
    \/ CrawlNext
    \/ CrawlDone
    \/ \E alive, restart_ok \in BOOLEAN : FetchEnter(alive, restart_ok)
    \/ FetchSuccess
    \/ \E restart_ok \in BOOLEAN : FetchSessionLost(restart_ok)
    \/ FetchError

SpecCrawl == InitCrawl /\ [][NextCrawl]_vars

(* the loop of extract_all and the calls it makes keep running *)
SpecCrawlLive == SpecCrawl /\ WF_vars(NextCrawl)


(* the calls driver.get(url) of the crawl that loaded the page *)
Successes == {i \in DOMAIN crawl.gets : crawl.gets[i].outcome = "success"}

(* C30: the crawl never calls driver.get for a queue item deeper than     *)
(* max_depth; no two stored results have the same url, and every page     *)
(* that loaded is stored; a url is fetched again only if every earlier    *)
(* fetch of it lost the browser session, and a fetch starts only for a    *)
(* url that is not in visited_urls, so a url loads at most once; the loop *)
(* ends only with an empty queue, and it does end.                        *)
C30_Crawl ==
    /\ [](/\ \A i \in DOMAIN crawl.gets : crawl.gets[i].depth <= crawl.max_depth
          /\ crawl.phase = "get" => crawl.item.depth <= crawl.max_depth
          /\ \A k1, k2 \in DOMAIN crawl.all_content :
                crawl.all_content[k1].url = crawl.all_content[k2].url => k1 = k2
          /\ Cardinality(DOMAIN crawl.all_content) = Cardinality(Successes)
          /\ \A i, j \in DOMAIN crawl.gets :
                i < j /\ crawl.gets[i].url = crawl.gets[j].url
                    => crawl.gets[i].outcome = "session_lost"
          /\ crawl.phase = "done" => crawl.queue = <<>>)
    /\ [][crawl.phase = "enter" /\ crawl'.phase = "get"
             => crawl.item.url \notin crawl.visited_urls]_crawl
    /\ <>(crawl.phase = "done")

(* a finished crawl in which a url was fetched again after a lost session *)
(* and loaded, two pages are stored, and a child link of a stored page    *)
(* was never fetched because it lay deeper than max_depth                 *)
C30_Witness ==
    /\ crawl.phase = "done"
    /\ \E i, j \in DOMAIN crawl.gets :
          /\ i < j /\ crawl.gets[i].url = crawl.gets[j].url
          /\ crawl.gets[i].outcome = "session_lost"
          /\ crawl.gets[j].outcome = "success"
    /\ Cardinality(DOMAIN crawl.all_content) >= 2
    /\ \E k \in DOMAIN crawl.all_content :
          \E c \in Range(crawl.all_content[k].child_links) :
              c \notin crawl.visited_urls

====
